---- MODULE Spec2Model ----
(***************************************************************************)
(* Scheduling-and-synchronization core of SportsClub_PWA:                  *)
(*   utils/errorHandler.js      error classifier and envelopes             *)
(*   services/appwrite.js       retryOperation (retry with backoff)        *)
(*   services/schedulingService.js  validation, date expansion, conflict   *)
(*                              check, bulk schedule and bulk cancel       *)
(*   services/authService.js    getCurrentUser                             *)
(*   services/databaseService.js logActivity                               *)
(*                                                                         *)
(* Calendar dates are day numbers counted from today (day 0 = today at     *)
(* 00:00 UTC); the clock is nowHour hours into day 0.  The remote document *)
(* store is the sequence store, a document's $id being its position.       *)
(***************************************************************************)
EXTENDS Integers, Sequences, FiniteSets, TLC

VARIABLES
  store,      \* classes collection: sequence of session documents
  auditLog,   \* activity_log collection: sequence of audit entries
  calls,      \* per call slot: the local state of one facade call
  pool,       \* which pool of requests callers draw from in this run
  faults,     \* remote operations the environment may still disturb
  losses,     \* replies of applied writes the network may still lose
  nowHour,    \* time of day (hours) at which the calls run
  weekday0,   \* weekday (0 = Sunday) of day 0
  rt,         \* state of one stand-alone retryOperation run
  zone,       \* time zone of the runtime the service executes in
  hook,       \* state of one mounted useScheduling hook
  rm,         \* the RealtimeManager singleton and the client's streams
  ap          \* state of one mounted useAppwrite hook

vars == <<store, auditLog, calls, pool, faults, losses, nowHour, weekday0, rt,
          zone, hook, rm, ap>>

(***************************************************************************)
(* Bounds of the model                                                     *)
(***************************************************************************)
MaxDay == 2            \* requests of the small pool range over days 0..MaxDay
MaxFaults == 2         \* remote operations the environment disturbs per run
MaxLosses == 1         \* replies of applied writes the network loses per run
MaxRetriesBound == 3   \* stand-alone retry runs use maxRetries <= this
DatesSpan == 3         \* longest date range of the dates pool, in days
BulkSpan == 17         \* longest date range of the bulk pool, in days

(***************************************************************************)
(* Program constants                                                       *)
(***************************************************************************)
MAX_ADVANCE_DAYS == 90
MIN_ADVANCE_HOURS == 2
MAX_BULK_OPERATIONS == 50
DefaultMaxRetries == 3
DefaultBaseDelay == 1000
MaxBackoffDelay == 10000

Calls == {1, 2}

(***************************************************************************)
(* Sequence helpers                                                        *)
(***************************************************************************)
Range(s) == {s[k] : k \in 1..Len(s)}

RECURSIVE Pow2(_)
Pow2(n) == IF n <= 0 THEN 1 ELSE 2 * Pow2(n - 1)

Min(a, b) == IF a <= b THEN a ELSE b

(***************************************************************************)
(* Error classifier (utils/errorHandler.js)                                *)
(*                                                                         *)
(* A raw error is represented by the value of error.code || error.status;  *)
(* errors that carry neither (TypeError, ReferenceError, new Error(..),    *)
(* a plain string) are represented by NoCode, which is also what           *)
(* createEnhancedError substitutes for them ('unknown').                   *)
(***************************************************************************)
Num(n) == [isNum |-> TRUE, n |-> n, s |-> ""]
Str(s) == [isNum |-> FALSE, n |-> 0, s |-> s]
NoCode == Str("unknown")

MappedCodes ==
  { Num(401), Str("user_unauthorized"), Str("user_not_found"), Str("session_expired"),
    Num(403), Str("permission_denied"), Str("insufficient_permissions"),
    Str("network_error"), Str("connection_timeout"), Num(503), Num(502),
    Num(400), Str("validation_failed"), Str("required_field_missing"),
    Num(404), Num(409), Str("document_not_found"),
    Num(429), Str("rate_limit_exceeded"),
    Num(500), Str("database_error") }

\* codes the table does not map
UnmappedCodes == { NoCode, Num(504), Num(599), Num(600), Num(499), Num(422),
                   Str("service_unavailable"), Str("collection_not_found") }

AllCodes == MappedCodes \cup UnmappedCodes

\* ERROR_CODE_MAPPING[errorCode].type, UNKNOWN_ERROR for unmapped codes
ERROR_CODE_MAPPING(code) ==
  CASE code \in {Num(401), Str("user_unauthorized"), Str("user_not_found"),
                 Str("session_expired")}                -> "AUTHENTICATION_ERROR"
    [] code \in {Num(403), Str("permission_denied")}    -> "PERMISSION_ERROR"
    [] code = Str("insufficient_permissions")           -> "AUTHORIZATION_ERROR"
    [] code \in {Str("network_error"), Num(503), Num(502)} -> "NETWORK_ERROR"
    [] code = Str("connection_timeout")                 -> "TIMEOUT_ERROR"
    [] code \in {Num(400), Str("validation_failed"),
                 Str("required_field_missing")}         -> "VALIDATION_ERROR"
    [] code \in {Num(404), Str("document_not_found")}   -> "NOT_FOUND_ERROR"
    [] code = Num(409)                                  -> "CONFLICT_ERROR"
    [] code \in {Num(429), Str("rate_limit_exceeded")}  -> "RATE_LIMIT_ERROR"
    [] code \in {Num(500), Str("database_error")}       -> "SERVER_ERROR"
    [] OTHER                                            -> "UNKNOWN_ERROR"

\* isRetryableError without the rule for numeric codes from 500 to 599
isRetryableError_TypesOnly(errorCode, errorType) ==
  \/ errorType \in {"NETWORK_ERROR", "TIMEOUT_ERROR"}
  \/ errorType = "RATE_LIMIT_ERROR"
  \/ errorCode \in {Str("service_unavailable"), Str("connection_timeout"),
                    Str("database_error")}

isRetryableError(errorCode, errorType) ==
  \/ errorType \in {"NETWORK_ERROR", "TIMEOUT_ERROR"}
  \/ (errorCode.isNum /\ errorCode.n >= 500 /\ errorCode.n < 600)
  \/ errorType = "RATE_LIMIT_ERROR"
  \/ errorCode \in {Str("service_unavailable"), Str("connection_timeout"),
                    Str("database_error")}

\* the context / options object of an enhanced error; handler names the
\* handler whose fixed keys it carries, retryCount = -1 stands for "absent"
NoCtx == [handler |-> "default", retryCount |-> -1, finalAttempt |-> FALSE,
          isOffline |-> FALSE, fieldErrors |-> <<>>, errors |-> <<>>]

createEnhancedError(error, operation, context) ==
  [success |-> FALSE,
   type |-> ERROR_CODE_MAPPING(error),
   code |-> error,
   retryable |-> isRetryableError(error, ERROR_CODE_MAPPING(error)),
   operation |-> operation,
   context |-> context]

NoError == [success |-> FALSE, type |-> "", code |-> Str(""), retryable |-> FALSE,
            operation |-> "", context |-> NoCtx]

handleNetworkError(error, operation, retryCount, online) ==
  createEnhancedError(error, operation,
    [NoCtx EXCEPT !.handler = "network",
                  !.retryCount = IF retryCount = -1 THEN 0 ELSE retryCount,
                  !.isOffline = ~online])

handleAuthError(error, operation) ==
  createEnhancedError(error, operation, [NoCtx EXCEPT !.handler = "auth"])

handlePermissionError(error, operation) ==
  createEnhancedError(error, operation, [NoCtx EXCEPT !.handler = "permission"])

handleValidationError(error, operation, fieldErrors) ==
  createEnhancedError(error, operation,
    [NoCtx EXCEPT !.handler = "validation", !.fieldErrors = fieldErrors])

\* online is navigator.onLine at the time of the call
handleError(error, operation, options, online) ==
  IF error = Num(401) THEN handleAuthError(error, operation)
  ELSE IF error = Num(403) THEN handlePermissionError(error, operation)
  ELSE IF error = Num(400)
    THEN handleValidationError(error, operation, options.fieldErrors)
  ELSE IF ~online \/ error = Num(503)
    THEN handleNetworkError(error, operation, options.retryCount, online)
  ELSE createEnhancedError(error, operation, options)

(***************************************************************************)
(* retryOperation (services/appwrite.js)                                   *)
(***************************************************************************)
\* RetryDelay without the cap
RetryDelay_NoCap(attempt, baseDelay) ==
  baseDelay * Pow2(attempt - 1)

\* the sleep before attempt number attempt (> 0)
RetryDelay(attempt, baseDelay) ==
  Min(baseDelay * Pow2(attempt - 1), MaxBackoffDelay)

\* RetryCatch with the ceiling test one attempt early
RetryCatch_EarlyCeiling(attempt, error, operationName, maxRetries, online) ==
  LET enhancedError ==
        handleError(error, operationName,
                    [NoCtx EXCEPT !.retryCount = attempt], online)
  IN IF ~enhancedError.retryable
       THEN [throw |-> TRUE, err |-> enhancedError]
     ELSE IF attempt >= maxRetries - 1
       THEN [throw |-> TRUE, err |-> enhancedError]
     ELSE [throw |-> FALSE, err |-> enhancedError]

\* RetryCatch without the test of the retryable flag
RetryCatch_RetryAll(attempt, error, operationName, maxRetries, online) ==
  LET enhancedError ==
        handleError(error, operationName,
                    [NoCtx EXCEPT !.retryCount = attempt], online)
  IN IF attempt = maxRetries
       THEN [throw |-> TRUE, err |-> enhancedError]
     ELSE [throw |-> FALSE, err |-> enhancedError]

\* the catch block of one loop iteration: what the loop does after the
\* operation failed with raw error error on attempt number attempt
RetryCatch(attempt, error, operationName, maxRetries, online) ==
  LET enhancedError ==
        handleError(error, operationName,
                    [NoCtx EXCEPT !.retryCount = attempt], online)
  IN IF ~enhancedError.retryable
       THEN [throw |-> TRUE, err |-> enhancedError]
     ELSE IF attempt = maxRetries
       THEN [throw |-> TRUE, err |-> enhancedError]
     ELSE [throw |-> FALSE, err |-> enhancedError]

\* the statement after the loop
RetryAfterLoop(lastError, operationName, maxRetries, online) ==
  handleError(lastError, operationName,
              [NoCtx EXCEPT !.retryCount = maxRetries, !.finalAttempt = TRUE],
              online)

(***************************************************************************)
(* A stand-alone run of retryOperation(operation, name, maxRetries,        *)
(* baseDelay) against an operation whose outcome on each invocation is     *)
(* chosen by the environment.                                              *)
(***************************************************************************)
BaseDelays == {DefaultBaseDelay, 4000}

RtIdle == [status |-> "idle", maxRetries |-> 0, baseDelay |-> 0, attempt |-> 0,
           invocations |-> 0, delays |-> <<>>, hist |-> <<>>,
           lastError |-> NoCode, err |-> NoError]

\* class of one attempt's outcome, for the history kept of the run
OutcomeClass(outcome) ==
  IF outcome = Str("ok") THEN "ok"
  ELSE IF isRetryableError(outcome, ERROR_CODE_MAPPING(outcome)) THEN "R" ELSE "N"

\* the call: retryOperation(operation, name, maxRetries, baseDelay)
RetryCall(maxRetries, baseDelay) ==
  /\ rt.status = "idle"
  /\ rt' = [RtIdle EXCEPT !.status = "running", !.maxRetries = maxRetries,
                          !.baseDelay = baseDelay]
  /\ UNCHANGED <<store, auditLog, calls, pool, faults, losses, nowHour, weekday0, zone, hook, rm, ap>>

\* one iteration of the for loop: the backoff sleep (attempt > 0), the
\* invocation of the operation, and the return or the catch block
RetryIteration(outcome, online) ==
  /\ rt.status = "running"
  /\ rt.attempt <= rt.maxRetries
  /\ LET slept == IF rt.attempt > 0
                    THEN Append(rt.delays, RetryDelay(rt.attempt, rt.baseDelay))
                    ELSE rt.delays
         ran == [rt EXCEPT !.delays = slept,
                           !.invocations = rt.invocations + 1,
                           !.hist = Append(rt.hist, OutcomeClass(outcome))]
     IN IF outcome = Str("ok")
          THEN rt' = [ran EXCEPT !.status = "returned"]
          ELSE LET c == RetryCatch(rt.attempt, outcome, "op", rt.maxRetries, online)
               IN IF c.throw
                    THEN rt' = [ran EXCEPT !.status = "thrown", !.err = c.err,
                                           !.lastError = outcome]
                    ELSE rt' = [ran EXCEPT !.attempt = rt.attempt + 1,
                                           !.lastError = outcome]
  /\ UNCHANGED <<store, auditLog, calls, pool, faults, losses, nowHour, weekday0, zone, hook, rm, ap>>

\* the loop condition fails: the throw after the loop
RetryLoopExit(online) ==
  /\ rt.status = "running"
  /\ ~(rt.attempt <= rt.maxRetries)
  /\ rt' = [rt EXCEPT !.status = "thrown",
                      !.err = RetryAfterLoop(rt.lastError, "op", rt.maxRetries, online)]
  /\ UNCHANGED <<store, auditLog, calls, pool, faults, losses, nowHour, weekday0, zone, hook, rm, ap>>

(***************************************************************************)
(* Scheduling service (services/schedulingService.js): configuration,      *)
(* date utilities and request validation                                   *)
(***************************************************************************)
BatchKeys == {"MORNING", "EVENING", "WEEKEND"}

\* String.prototype.toUpperCase on the batch ids callers pass
ToUpperCase(id) ==
  CASE id \in {"morning", "Morning", "MORNING"} -> "MORNING"
    [] id \in {"evening", "Evening", "EVENING"} -> "EVENING"
    [] id \in {"weekend", "Weekend", "WEEKEND"} -> "WEEKEND"
    [] id = "yoga" -> "YOGA"
    [] OTHER -> id

\* SCHEDULING_CONFIG.BATCHES[key].name
BatchName(key) ==
  CASE key = "MORNING" -> "Morning Batch"
    [] key = "EVENING" -> "Evening Batch"
    [] key = "WEEKEND" -> "Weekend Batch"

SchedulingActions == {"schedule", "cancel", "reschedule"}

NoDate == -1   \* a request field that is missing

\* A Date object is the instant it denotes, in hours since day 0 at 00:00
\* UTC.  A time zone is [std, hasDst, dstAt]: local time is UTC + std hours
\* before the instant dstAt and, if hasDst, UTC + std + 1 hours from it on.
UTC == [std |-> 0, hasDst |-> FALSE, dstAt |-> 0]

\* new Date('YYYY-MM-DD'): midnight UTC of that day
NewDate(day) == 24 * day

\* DateUtils.formatDateForStorage: date.toISOString().split('T')[0]
formatDateForStorage(date) == date \div 24

\* the local wall-clock time of an instant, and the instant of a local time
\* (a local time skipped by the clock change is read with the old offset)
LocalTime(t) == t + (IF zone.hasDst /\ t >= zone.dstAt THEN zone.std + 1 ELSE zone.std)

FromLocalTime(w) ==
  IF ~zone.hasDst \/ w - zone.std < zone.dstAt THEN w - zone.std
  ELSE IF w - (zone.std + 1) >= zone.dstAt THEN w - (zone.std + 1)
  ELSE w - zone.std

\* Date.prototype.getDay: the weekday of the local calendar day
GetDay(t) == (weekday0 + (LocalTime(t) \div 24)) % 7

\* date.setDate(date.getDate() + n): n local calendar days later, at the
\* same local time of day
AddDays(t, n) == FromLocalTime(LocalTime(t) + 24 * n)

RECURSIVE generateDateRange(_, _, _)
generateDateRange(startDate, endDate, excludeDays) ==
  IF ~(startDate <= endDate) THEN <<>>
  ELSE (IF GetDay(startDate) \notin excludeDays THEN <<startDate>> ELSE <<>>)
       \o generateDateRange(AddDays(startDate, 1), endDate, excludeDays)

\* DateUtils.isValidSchedulingDate(date).valid, times in hours since day 0
isValidSchedulingDate(date, now) ==
  /\ ~(24 * date < now + MIN_ADVANCE_HOURS)
  /\ ~(24 * date > now + MAX_ADVANCE_DAYS * 24)

\* the errors array validateSchedulingRequest collects, as tags
validateSchedulingRequest(request, now) ==
  LET If(cond, tag) == IF cond THEN <<tag>> ELSE <<>>
      both == request.startDate # NoDate /\ request.endDate # NoDate
      daysDiff == request.endDate - request.startDate
      totalClasses == daysDiff * Len(request.batches)
  IN If(request.startDate = NoDate, "start_required")
     \o If(request.endDate = NoDate, "end_required")
     \o If(Len(request.batches) = 0, "batch_required")
     \o If(request.action \notin SchedulingActions, "action_required")
     \o If(both /\ request.startDate > request.endDate, "start_after_end")
     \o If(both /\ ~isValidSchedulingDate(request.startDate, now), "start_invalid")
     \o If(both /\ ~isValidSchedulingDate(request.endDate, now), "end_invalid")
     \o If(both /\ totalClasses > MAX_BULK_OPERATIONS, "too_many")
     \o If(\E k \in 1..Len(request.batches) :
              ToUpperCase(request.batches[k]) \notin BatchKeys, "invalid_batches")

(***************************************************************************)
(* The remote store and the envelopes                                      *)
(***************************************************************************)
RECURSIVE ScheduledFrom(_, _, _, _)
\* databases.listDocuments with the three equality filters of the conflict
\* and cancel queries: the $ids of the matching documents, in store order
ScheduledFrom(docs, from, date, batchName) ==
  IF from > Len(docs) THEN <<>>
  ELSE (IF /\ docs[from].date = date
           /\ docs[from].batch_name = batchName
           /\ docs[from].status = "scheduled"
          THEN <<from>> ELSE <<>>)
       \o ScheduledFrom(docs, from + 1, date, batchName)

RECURSIVE AnyStatusFrom(_, _, _, _)
AnyStatusFrom(docs, from, date, batchName) ==
  IF from > Len(docs) THEN <<>>
  ELSE (IF docs[from].date = date /\ docs[from].batch_name = batchName
          THEN <<from>> ELSE <<>>)
       \o AnyStatusFrom(docs, from + 1, date, batchName)

\* listScheduled without the filter on status
listScheduled_AnyStatus(docs, date, batchName) ==
  AnyStatusFrom(docs, 1, date, batchName)

\* listScheduled returning no more than the first match
listScheduled_FirstOnly(docs, date, batchName) ==
  LET all == ScheduledFrom(docs, 1, date, batchName)
  IN IF Len(all) > 0 THEN <<all[1]>> ELSE <<>>

listScheduled(docs, date, batchName) == ScheduledFrom(docs, 1, date, batchName)

NoStats == [scheduled |-> 0, completed |-> 0, cancelled |-> 0]

NoData == [present |-> FALSE, count |-> 0, errors |-> 0, classes |-> <<>>,
           failed |-> <<>>, hasConflicts |-> FALSE, conflicts |-> <<>>,
           stats |-> NoStats]

NoEnvelope == [returned |-> FALSE, success |-> FALSE, data |-> NoData, error |-> NoError]

createSuccessResponse(data) ==
  [returned |-> TRUE, success |-> TRUE, data |-> data, error |-> NoError]

\* ErrorEnvelope when the catch block rethrows instead of returning
ErrorEnvelope_Rethrow(err) == NoEnvelope

\* an enhanced error returned as the envelope of a call
ErrorEnvelope(err) ==
  [returned |-> TRUE, success |-> err.success, data |-> NoData, error |-> err]

(***************************************************************************)
(* Outcomes the environment gives one remote invocation                    *)
(***************************************************************************)
FaultCodes == {Num(404), Num(500), Num(503)}
LostCodes == {NoCode, Num(504)}   \* what a client sees when the reply is lost

OkOutcome == [code |-> Str("ok"), applied |-> TRUE]
ReadOutcomes == {OkOutcome} \cup {[code |-> f, applied |-> FALSE] : f \in FaultCodes}
WriteOutcomes == ReadOutcomes \cup {[code |-> f, applied |-> TRUE] : f \in LostCodes}

(***************************************************************************)
(* One facade call: its local variables and its position                   *)
(*   pc: idle -> conflicts -> user -> create | find/update -> audit -> done *)
(*       idle -> list -> done        (getScheduledClasses, getClassStatistics) *)
(* The fields after env are history kept for the properties: store0 the    *)
(* store when the call began, valid / checked / checkFailed how validation *)
(* and the conflict check ended, remote the kinds of remote request        *)
(* issued, tried the pairs whose mutation was begun, added the $ids        *)
(* created.                                                                *)
(***************************************************************************)
NoReq == [startDate |-> NoDate, endDate |-> NoDate, batches |-> <<>>,
          hasExclude |-> FALSE, excludeDays |-> {}, skipConflicts |-> FALSE,
          action |-> ""]

\* the arguments of getScheduledClasses; isArray tells whether batches is
\* an array, statuses = {} stands for null
NoQuery == [startDate |-> NoDate, endDate |-> NoDate, isArray |-> TRUE,
            batches |-> <<>>, statuses |-> {}]

IdleCall ==
  [op |-> "none", pc |-> "idle", req |-> NoReq, query |-> NoQuery,
   dates |-> <<>>, batches |-> <<>>,
   i |-> 0, attempt |-> 0, conflicts |-> <<>>, by |-> "", classes |-> <<>>,
   failed |-> <<>>, found |-> <<>>, j |-> 0, env |-> NoEnvelope,
   store0 |-> <<>>, valid |-> FALSE, checked |-> FALSE, checkFailed |-> FALSE,
   tried |-> <<>>,
   remote |-> {}, nAudit |-> 0, added |-> <<>>]

NumItems(k) == Len(k.dates) * Len(k.batches)

\* the i-th pair of "for date of dates, for batch of batches": its
\* dateString and its batch id
\* ItemDate of loops nested the other way round (batch-major)
ItemDate_BatchMajor(k, i) ==
  formatDateForStorage(k.dates[((i - 1) % Len(k.dates)) + 1])

ItemDate(k, i) == formatDateForStorage(k.dates[((i - 1) \div Len(k.batches)) + 1])
ItemBatch(k, i) == k.batches[((i - 1) % Len(k.batches)) + 1]

\* EnterLoop returning at once when there is no pair to work on
EnterLoop_ReturnWhenEmpty(k, loopPc) ==
  IF NumItems(k) = 0 THEN [k EXCEPT !.pc = "done"]
  ELSE [k EXCEPT !.pc = loopPc, !.i = 1, !.attempt = 0]

\* entering a bulk loop, and moving to the next pair of it
EnterLoop(k, loopPc) ==
  IF NumItems(k) = 0 THEN [k EXCEPT !.pc = "audit"]
  ELSE [k EXCEPT !.pc = loopPc, !.i = 1, !.attempt = 0]

NextItem(k, loopPc) ==
  IF k.i + 1 > NumItems(k)
    THEN [k EXCEPT !.pc = "audit", !.i = k.i + 1, !.attempt = 0,
                   !.found = <<>>, !.j = 0]
    ELSE [k EXCEPT !.pc = loopPc, !.i = k.i + 1, !.attempt = 0,
                   !.found = <<>>, !.j = 0]

Finish(k, envelope) == [k EXCEPT !.pc = "done", !.env = envelope]

\* the environment disturbs a bounded number of remote operations: the
\* first failure of an operation takes one unit of the budget, the failures
\* of its retries (attempt > 0) take none
\* and the network loses the reply of a bounded number of applied writes
Injects(out) == out # OkOutcome
Loses(out) == out # OkOutcome /\ out.applied
Budget(out, attempt) ==
  /\ (Injects(out) /\ attempt = 0) => faults > 0
  /\ faults' = IF Injects(out) /\ attempt = 0 THEN faults - 1 ELSE faults
  /\ Loses(out) => losses > 0
  /\ losses' = IF Loses(out) THEN losses - 1 ELSE losses

(***************************************************************************)
(* checkSchedulingConflicts                                                *)
(***************************************************************************)
\* ConflictsChecked without the test of hasConflicts in scheduleClasses
ConflictsChecked_IgnoreConflicts(k) ==
  IF k.op = "check"
    THEN [k EXCEPT !.pc = "done", !.env = createSuccessResponse(
           [NoData EXCEPT !.present = TRUE,
                          !.hasConflicts = Len(k.conflicts) > 0,
                          !.conflicts = k.conflicts])]
  ELSE [k EXCEPT !.pc = "user", !.checked = TRUE, !.i = 0, !.attempt = 0]

\* the return of checkSchedulingConflicts and, inside scheduleClasses, the
\* two tests made on its result
ConflictsChecked(k) ==
  IF k.op = "check"
    THEN Finish(k, createSuccessResponse(
           [NoData EXCEPT !.present = TRUE,
                          !.hasConflicts = Len(k.conflicts) > 0,
                          !.conflicts = k.conflicts]))
  ELSE IF Len(k.conflicts) > 0
    THEN Finish(k, ErrorEnvelope(
           handleValidationError(NoCode, "VALIDATION_ERROR", k.conflicts)))
  ELSE [k EXCEPT !.pc = "user", !.checked = TRUE, !.i = 0, !.attempt = 0]

\* checkSchedulingConflicts(dates, batches) called by a client
CheckStart(c, q) ==
  /\ calls[c].pc = "idle"
  /\ LET k == [IdleCall EXCEPT !.op = "check",
                               !.dates = [n \in 1..Len(q.dates) |-> NewDate(q.dates[n])],
                               !.batches = q.batches, !.store0 = store,
                               !.req = [NoReq EXCEPT !.batches = q.batches]]
     IN calls' = [calls EXCEPT ![c] =
                    IF NumItems(k) = 0 THEN ConflictsChecked(k)
                    ELSE [k EXCEPT !.pc = "conflicts", !.i = 1]]
  /\ UNCHANGED <<store, auditLog, pool, faults, losses, nowHour, weekday0, rt, zone, hook, rm, ap>>

\* one iteration of retryOperation around the listDocuments of one pair
ConflictQuery(c, out, online) ==
  /\ calls[c].pc = "conflicts"
  /\ out \in ReadOutcomes
  /\ LET k == calls[c]
         key == ToUpperCase(ItemBatch(k, k.i))
     IN IF key \notin BatchKeys
          THEN \* batchConfig is undefined: TypeError before any query
               /\ out = OkOutcome
               /\ UNCHANGED <<faults, losses>>
               /\ calls' = [calls EXCEPT ![c] =
                    Finish([k EXCEPT !.checkFailed = TRUE], ErrorEnvelope(
                      handleError(NoCode, "checkSchedulingConflicts", NoCtx, online)))]
          ELSE
            /\ Budget(out, k.attempt)
            /\ LET q == [k EXCEPT !.remote = k.remote \cup {"query"}]
                   docs == listScheduled(store, ItemDate(k, k.i), BatchName(key))
                   hit == [date |-> ItemDate(k, k.i), batch |-> BatchName(key),
                           existingClass |-> docs[1]]
                   r == RetryCatch(k.attempt, out.code, "check_scheduling_conflicts",
                                   DefaultMaxRetries, online)
               IN calls' = [calls EXCEPT ![c] =
                    IF out = OkOutcome
                      THEN LET n == [q EXCEPT !.conflicts =
                                        IF Len(docs) > 0 THEN Append(k.conflicts, hit)
                                        ELSE k.conflicts,
                                      !.i = k.i + 1, !.attempt = 0]
                           IN IF n.i > NumItems(n) THEN ConflictsChecked(n) ELSE n
                    ELSE IF r.throw
                      THEN Finish([q EXCEPT !.checkFailed = TRUE], ErrorEnvelope(
                             handleError(r.err.code, "checkSchedulingConflicts",
                                         NoCtx, online)))
                    ELSE [q EXCEPT !.attempt = k.attempt + 1]]
  /\ UNCHANGED <<store, auditLog, pool, nowHour, weekday0, rt, zone, hook, rm, ap>>

(***************************************************************************)
(* scheduleClasses                                                         *)
(***************************************************************************)
\* the synchronous head of scheduleClasses(request): validation, defaults,
\* date expansion, up to the first await
ScheduleStart(c, request) ==
  /\ calls[c].pc = "idle"
  /\ LET k == [IdleCall EXCEPT !.op = "schedule", !.req = request, !.store0 = store]
         errors == validateSchedulingRequest(request, nowHour)
         excludeDays == IF request.hasExclude THEN request.excludeDays ELSE {0}
         v == [k EXCEPT !.valid = TRUE,
                        !.batches = request.batches,
                        !.dates = generateDateRange(NewDate(request.startDate),
                                                    NewDate(request.endDate),
                                                    excludeDays)]
     IN calls' = [calls EXCEPT ![c] =
          IF Len(errors) > 0
            THEN Finish(k, ErrorEnvelope(
                   handleValidationError(NoCode, "Unknown operation", <<>>)))
          ELSE IF ~request.skipConflicts
            THEN (IF NumItems(v) = 0 THEN ConflictsChecked(v)
                  ELSE [v EXCEPT !.pc = "conflicts", !.i = 1])
          ELSE [v EXCEPT !.pc = "user"]]
  /\ UNCHANGED <<store, auditLog, pool, faults, losses, nowHour, weekday0, rt, zone, hook, rm, ap>>

\* await getCurrentUser() and the line that reads currentUser.data.email.
\* account.get() answers with the user ("user"), with 401 ("none":
\* getCurrentUser returns a success envelope whose data is null, and
\* reading .email of it throws), or with another error ("error":
\* getCurrentUser calls handleAppwriteError, which authService.js neither
\* defines nor imports, and so throws).  Both throws reach the outer catch.
GetCurrentUser(c, answer, online) ==
  /\ calls[c].pc = "user"
  /\ answer \in {"user", "none", "error"}
  /\ LET k == calls[c]
         loopPc == IF k.op = "schedule" THEN "create" ELSE "find"
         operation == IF k.op = "schedule" THEN "scheduleClasses" ELSE "cancelClasses"
     IN calls' = [calls EXCEPT ![c] =
          IF answer = "user"
            THEN EnterLoop([k EXCEPT !.by = "user"], loopPc)
            ELSE Finish(k, ErrorEnvelope(handleError(NoCode, operation, NoCtx, online)))]
  /\ UNCHANGED <<store, auditLog, pool, faults, losses, nowHour, weekday0, rt, zone, hook, rm, ap>>

\* ClassData with another status
ClassData_Completed(k) ==
  [date |-> ItemDate(k, k.i),
   batch_name |-> BatchName(ToUpperCase(ItemBatch(k, k.i))),
   status |-> "completed"]

\* the class document scheduleClasses builds for one pair
ClassData(k) ==
  [date |-> ItemDate(k, k.i),
   batch_name |-> BatchName(ToUpperCase(ItemBatch(k, k.i))),
   status |-> "scheduled"]

\* one iteration of retryOperation around the createDocument of one pair,
\* with the push or the per-item catch that follows it
CreateClass(c, out, online) ==
  /\ calls[c].pc = "create"
  /\ out \in WriteOutcomes
  /\ Budget(out, calls[c].attempt)
  /\ LET k == calls[c]
         q == [k EXCEPT !.remote = k.remote \cup {"create"},
                        !.tried = IF k.attempt = 0 THEN Append(k.tried, k.i)
                                  ELSE k.tried,
                        !.added = IF out.applied THEN Append(k.added, Len(store) + 1)
                                  ELSE k.added]
         r == RetryCatch(k.attempt, out.code, "schedule_class",
                         DefaultMaxRetries, online)
     IN /\ store' = IF out.applied THEN Append(store, ClassData(k)) ELSE store
        /\ calls' = [calls EXCEPT ![c] =
             IF out = OkOutcome
               THEN NextItem([q EXCEPT !.classes = Append(k.classes, Len(store) + 1)],
                             "create")
             ELSE IF r.throw
               THEN NextItem([q EXCEPT !.failed = Append(k.failed,
                                [date |-> ItemDate(k, k.i), batch |-> ItemBatch(k, k.i)])],
                             "create")
             ELSE [q EXCEPT !.attempt = k.attempt + 1]]
  /\ UNCHANGED <<auditLog, pool, nowHour, weekday0, rt, zone, hook, rm, ap>>

\* ScheduleEnvelope reporting success whatever the counts are
ScheduleEnvelope_AlwaysSuccess(classes, failed, online) ==
  createSuccessResponse(
    [NoData EXCEPT !.present = TRUE, !.count = Len(classes),
                   !.errors = Len(failed), !.classes = classes, !.failed = failed])

\* the result object and the three-way classification at the end of
\* scheduleClasses
ScheduleEnvelope(classes, failed, online) ==
  LET result == [NoData EXCEPT !.present = TRUE, !.count = Len(classes),
                               !.errors = Len(failed), !.classes = classes,
                               !.failed = failed]
  IN IF Len(failed) = 0 THEN createSuccessResponse(result)
     ELSE IF Len(classes) > 0 THEN createSuccessResponse(result)
     ELSE ErrorEnvelope(handleError(NoCode, "scheduleClasses",
                                    [NoCtx EXCEPT !.errors = failed], online))

(***************************************************************************)
(* cancelClasses                                                           *)
(***************************************************************************)
CancelStart(c, request) ==
  /\ calls[c].pc = "idle"
  /\ LET k == [IdleCall EXCEPT !.op = "cancel", !.req = request, !.store0 = store]
         errors == validateSchedulingRequest([request EXCEPT !.action = "cancel"],
                                             nowHour)
     IN calls' = [calls EXCEPT ![c] =
          IF Len(errors) > 0
            THEN Finish(k, ErrorEnvelope(
                   handleValidationError(NoCode, "Unknown operation", <<>>)))
          ELSE [k EXCEPT !.valid = TRUE, !.pc = "user",
                         !.batches = request.batches,
                         !.dates = generateDateRange(NewDate(request.startDate),
                                                     NewDate(request.endDate), {})]]
  /\ UNCHANGED <<store, auditLog, pool, faults, losses, nowHour, weekday0, rt, zone, hook, rm, ap>>

\* one iteration of retryOperation around the listDocuments of one pair
FindClasses(c, out, online) ==
  /\ calls[c].pc = "find"
  /\ out \in ReadOutcomes
  /\ Budget(out, calls[c].attempt)
  /\ LET k == calls[c]
         q == [k EXCEPT !.remote = k.remote \cup {"query"},
                        !.tried = IF k.attempt = 0 THEN Append(k.tried, k.i)
                                  ELSE k.tried]
         docs == listScheduled(store, ItemDate(k, k.i),
                               BatchName(ToUpperCase(ItemBatch(k, k.i))))
         r == RetryCatch(k.attempt, out.code, "find_classes_to_cancel",
                         DefaultMaxRetries, online)
     IN calls' = [calls EXCEPT ![c] =
          IF out = OkOutcome
            THEN (IF Len(docs) = 0 THEN NextItem(q, "find")
                  ELSE [q EXCEPT !.pc = "update", !.found = docs, !.j = 1,
                                 !.attempt = 0])
          ELSE IF r.throw
            THEN NextItem([q EXCEPT !.failed = Append(k.failed,
                             [date |-> ItemDate(k, k.i), batch |-> ItemBatch(k, k.i)])],
                          "find")
          ELSE [q EXCEPT !.attempt = k.attempt + 1]]
  /\ UNCHANGED <<store, auditLog, pool, nowHour, weekday0, rt, zone, hook, rm, ap>>

\* one iteration of retryOperation around the updateDocument of one found
\* class, with the push or the per-item catch that follows it
CancelClass(c, out, online) ==
  /\ calls[c].pc = "update"
  /\ out \in WriteOutcomes
  /\ Budget(out, calls[c].attempt)
  /\ LET k == calls[c]
         id == k.found[k.j]
         q == [k EXCEPT !.remote = k.remote \cup {"update"}]
         r == RetryCatch(k.attempt, out.code, "cancel_class",
                         DefaultMaxRetries, online)
     IN /\ store' = IF out.applied THEN [store EXCEPT ![id].status = "cancelled"]
                    ELSE store
        /\ calls' = [calls EXCEPT ![c] =
             IF out = OkOutcome
               THEN (IF k.j + 1 > Len(k.found)
                       THEN NextItem([q EXCEPT !.classes = Append(k.classes, id)], "find")
                       ELSE [q EXCEPT !.classes = Append(k.classes, id),
                                      !.j = k.j + 1, !.attempt = 0])
             ELSE IF r.throw
               THEN NextItem([q EXCEPT !.failed = Append(k.failed,
                                [date |-> ItemDate(k, k.i), batch |-> ItemBatch(k, k.i)])],
                             "find")
             ELSE [q EXCEPT !.attempt = k.attempt + 1]]
  /\ UNCHANGED <<auditLog, pool, nowHour, weekday0, rt, zone, hook, rm, ap>>

\* CancelEnvelope treating "nothing cancelled" as scheduleClasses treats
\* "nothing scheduled"
CancelEnvelope_NoneIsFailure(classes, failed) ==
  IF Len(classes) = 0
    THEN ErrorEnvelope(createEnhancedError(NoCode, "cancelClasses", NoCtx))
    ELSE createSuccessResponse(
           [NoData EXCEPT !.present = TRUE, !.count = Len(classes),
                          !.errors = Len(failed), !.classes = classes,
                          !.failed = failed])

\* the result object and the return at the end of cancelClasses
CancelEnvelope(classes, failed) ==
  LET result == [NoData EXCEPT !.present = TRUE, !.count = Len(classes),
                               !.errors = Len(failed), !.classes = classes,
                               !.failed = failed]
  IN IF Len(classes) = 0 THEN createSuccessResponse(result)
     ELSE createSuccessResponse(result)

(***************************************************************************)
(* The tail of both bulk calls: logActivity, then the envelope             *)
(***************************************************************************)
\* logActivity makes one createDocument, without retry, and absorbs its
\* failure; the caller then builds and returns the envelope
\* AfterAudit without the try/catch around the audit write: its error
\* reaches the catch of the whole function
AfterAudit_Propagates(k, out, online) ==
  IF out.code # Str("ok")
    THEN ErrorEnvelope(handleError(out.code, k.op, NoCtx, online))
    ELSE IF k.op = "schedule" THEN ScheduleEnvelope(k.classes, k.failed, online)
                              ELSE CancelEnvelope(k.classes, k.failed)

\* what the call returns after its audit write ended with outcome out:
\* logActivity catches the error of its write, the caller catches
\* whatever logActivity throws, and the result is built from the loop's
\* lists alone
AfterAudit(k, out, online) ==
  IF k.op = "schedule" THEN ScheduleEnvelope(k.classes, k.failed, online)
                       ELSE CancelEnvelope(k.classes, k.failed)

LogActivity(c, out, online) ==
  /\ calls[c].pc = "audit"
  /\ out \in WriteOutcomes
  /\ Budget(out, 0)
  /\ LET k == calls[c]
         entry == [action |-> k.op, by |-> k.by, count |-> Len(k.classes),
                   errors |-> Len(k.failed)]
     IN /\ auditLog' = IF out.applied THEN Append(auditLog, entry) ELSE auditLog
        /\ calls' = [calls EXCEPT ![c] =
             Finish([k EXCEPT !.nAudit = k.nAudit + 1, !.remote = k.remote \cup {"audit"}],
                    AfterAudit(k, out, online))]
  /\ UNCHANGED <<store, pool, nowHour, weekday0, rt, zone, hook, rm, ap>>

(***************************************************************************)
(* getScheduledClasses and getClassStatistics                              *)
(***************************************************************************)
\* the batch names getScheduledClasses filters on: unknown ids are dropped
BatchNamesOf(batches) ==
  {BatchName(ToUpperCase(batches[n])) :
     n \in {m \in 1..Len(batches) : ToUpperCase(batches[m]) \in BatchKeys}}

RECURSIVE MatchingFrom(_, _, _, _)
\* the documents of one date that pass the batch and status filters
MatchingFrom(docs, from, date, query) ==
  IF from > Len(docs) THEN <<>>
  ELSE (IF /\ docs[from].date = date
           /\ (BatchNamesOf(query.batches) = {}
                 \/ docs[from].batch_name \in BatchNamesOf(query.batches))
           /\ (query.statuses = {} \/ docs[from].status \in query.statuses)
          THEN <<from>> ELSE <<>>)
       \o MatchingFrom(docs, from + 1, date, query)

RECURSIVE ListFrom(_, _, _, _)
ListFrom(docs, date, last, query) ==
  IF date > last THEN <<>>
  ELSE MatchingFrom(docs, 1, date, query) \o ListFrom(docs, date + 1, last, query)

\* databases.listDocuments with the queries of getScheduledClasses: the
\* $ids of the documents in the date range, in ascending order of date
listByRange(docs, query) ==
  IF Len(docs) = 0 THEN <<>>
  ELSE LET dates == {docs[n].date : n \in 1..Len(docs)}
           lo == CHOOSE d \in dates : \A e \in dates : d <= e
           hi == CHOOSE d \in dates : \A e \in dates : e <= d
       IN ListFrom(docs, IF query.startDate > lo THEN query.startDate ELSE lo,
                   Min(query.endDate, hi), query)

\* getScheduledClasses(startDate, endDate, batches, statuses): the
\* synchronous head, up to the first await
ListStart(c, query) ==
  /\ calls[c].pc = "idle"
  /\ LET k == [IdleCall EXCEPT !.op = "list", !.query = query, !.store0 = store]
     IN calls' = [calls EXCEPT ![c] =
          IF ~query.isArray /\ Len(query.batches) > 0
            THEN \* batches.map is not a function: TypeError
                 Finish(k, ErrorEnvelope(
                   createEnhancedError(NoCode, "getScheduledClasses", NoCtx)))
            ELSE [k EXCEPT !.pc = "list"]]
  /\ UNCHANGED <<store, auditLog, pool, faults, losses, nowHour, weekday0, rt,
                 zone, hook, rm, ap>>

\* the date range getClassStatistics asks for; dom is the local day of the
\* month of today and monthDays the length of the month
StatsRange(period, dom, monthDays) ==
  LET weekStart == AddDays(nowHour, 0 - GetDay(nowHour))
      today == 24 * (LocalTime(nowHour) \div 24)
  IN CASE period = "day" ->
            [startDate |-> formatDateForStorage(nowHour),
             endDate |-> formatDateForStorage(nowHour)]
       [] period = "week" ->
            [startDate |-> formatDateForStorage(weekStart),
             endDate |-> formatDateForStorage(AddDays(weekStart, 6))]
       [] OTHER ->
            [startDate |-> formatDateForStorage(
                             FromLocalTime(today - 24 * (dom - 1))),
             endDate |-> formatDateForStorage(
                           FromLocalTime(today + 24 * (monthDays - dom)))]

\* getClassStatistics(period): the synchronous head, up to the call of
\* getScheduledClasses
StatsStart(c, period, dom, monthDays) ==
  /\ calls[c].pc = "idle"
  /\ LET k == [IdleCall EXCEPT !.op = "stats", !.store0 = store]
         range == StatsRange(period, dom, monthDays)
     IN calls' = [calls EXCEPT ![c] =
          IF period \notin {"day", "week", "month"}
            THEN \* throw new Error('Invalid period specified')
                 Finish(k, ErrorEnvelope(
                   createEnhancedError(NoCode, "getClassStatistics", NoCtx)))
            ELSE [k EXCEPT !.pc = "list",
                           !.query = [NoQuery EXCEPT !.startDate = range.startDate,
                                                     !.endDate = range.endDate]]]
  /\ UNCHANGED <<store, auditLog, pool, faults, losses, nowHour, weekday0, rt,
                 zone, hook, rm, ap>>

\* the counts getClassStatistics derives from the classes listed
StatsOf(docs, ids) ==
  [s \in {"scheduled", "completed", "cancelled"} |->
     Cardinality({n \in 1..Len(ids) : docs[ids[n]].status = s})]

\* one iteration of retryOperation around the listDocuments of
\* getScheduledClasses, with the return that follows it and, under
\* getClassStatistics, the aggregation of its result
ListQuery(c, out, online) ==
  /\ calls[c].pc = "list"
  /\ out \in ReadOutcomes
  /\ Budget(out, calls[c].attempt)
  /\ LET k == calls[c]
         q == [k EXCEPT !.remote = k.remote \cup {"query"}]
         ids == listByRange(store, k.query)
         listed == [NoData EXCEPT !.present = TRUE, !.classes = ids,
                                  !.count = Len(ids)]
         r == RetryCatch(k.attempt, out.code, "get_scheduled_classes",
                         DefaultMaxRetries, online)
     IN calls' = [calls EXCEPT ![c] =
          IF out = OkOutcome
            THEN Finish(q, createSuccessResponse(
                   IF k.op = "list" THEN listed
                   ELSE [NoData EXCEPT !.present = TRUE, !.count = Len(ids),
                                       !.stats = StatsOf(store, ids)]))
          ELSE IF r.throw
            THEN Finish(q, ErrorEnvelope(
                   handleError(r.err.code, "getScheduledClasses", NoCtx, online)))
          ELSE [q EXCEPT !.attempt = k.attempt + 1]]
  /\ UNCHANGED <<store, auditLog, pool, nowHour, weekday0, rt, zone, hook, rm, ap>>

(***************************************************************************)
(* useScheduling (hooks/usePWA.js): the bulk operations of one mounted     *)
(* hook.  A bulk call is numbered; controller is the call whose            *)
(* AbortController abortControllerRef holds (0 = null).  applied,          *)
(* callbacks and refreshes list, in order, the calls whose result reached  *)
(* lastOperation, onScheduled/onCancelled and refreshClassesOperation.     *)
(***************************************************************************)
MaxHookOps == 2

HookOps == 1..MaxHookOps

HookIdle ==
  [autoRefresh |-> TRUE, controller |-> 0, lastOperation |-> 0, isLoading |-> FALSE,
   error |-> FALSE,
   ops |-> [a \in HookOps |-> [pc |-> "idle", kind |-> "", aborted |-> FALSE,
                                abortedAtResult |-> FALSE]],
   applied |-> <<>>, callbacks |-> <<>>, refreshes |-> <<>>]

\* scheduleClassesOperation(request) / cancelClassesOperation(request) up to
\* the await of the service call: loading flags, reset of error and
\* lastOperation, abort of the previous controller, a new controller
HookBulkCall(a, kind) ==
  /\ hook.ops[a].pc = "idle"
  /\ \A b \in HookOps : b < a => hook.ops[b].pc # "idle"
  /\ hook' = [hook EXCEPT
       !.isLoading = TRUE, !.error = FALSE, !.lastOperation = 0,
       !.controller = a,
       !.ops = [b \in HookOps |->
                  IF b = a THEN [pc |-> "awaiting", kind |-> kind,
                                 aborted |-> FALSE, abortedAtResult |-> FALSE]
                  ELSE IF b = hook.controller
                    THEN [hook.ops[b] EXCEPT !.aborted = TRUE]
                  ELSE hook.ops[b]]]
  /\ UNCHANGED <<store, auditLog, calls, pool, faults, losses, nowHour, weekday0,
                 rt, zone, rm, ap>>

\* the service call of bulk call a resolves with an envelope: lastOperation
\* is set, and on success the callback runs and, with autoRefresh, the
\* refresh is started; a callback that throws lands in the catch block
HookResult(a, success, cbThrows) ==
  /\ hook.ops[a].pc = "awaiting"
  /\ cbThrows => success
  /\ LET refresh == success /\ ~cbThrows /\ hook.autoRefresh
     IN hook' = [hook EXCEPT
          !.lastOperation = a,
          !.isLoading = refresh,
          !.error = cbThrows,
          !.applied = Append(hook.applied, a),
          !.callbacks = IF success THEN Append(hook.callbacks, a) ELSE hook.callbacks,
          !.refreshes = IF refresh THEN Append(hook.refreshes, a) ELSE hook.refreshes,
          !.ops[a].abortedAtResult = hook.ops[a].aborted,
          !.ops[a].pc = IF refresh THEN "refreshing" ELSE "done"]
  /\ UNCHANGED <<store, auditLog, calls, pool, faults, losses, nowHour, weekday0,
                 rt, zone, rm, ap>>

\* the refresh awaited by bulk call a ends: refreshClassesOperation returns
\* an envelope either way, and the bulk call returns its result
HookRefreshDone(a, ok) ==
  /\ hook.ops[a].pc = "refreshing"
  /\ hook' = [hook EXCEPT !.isLoading = FALSE,
                          !.error = ~ok,
                          !.ops[a].pc = "done"]
  /\ UNCHANGED <<store, auditLog, calls, pool, faults, losses, nowHour, weekday0,
                 rt, zone, rm, ap>>

\* cleanup on unmount: abort the current controller and drop it
HookCleanup ==
  /\ hook.controller # 0
  /\ hook' = [hook EXCEPT !.controller = 0,
                          !.ops[hook.controller].aborted = TRUE]
  /\ UNCHANGED <<store, auditLog, calls, pool, faults, losses, nowHour, weekday0,
                 rt, zone, rm, ap>>

(***************************************************************************)
(* RealtimeManager (services/appwrite.js) and the streams client.subscribe *)
(* opened.  A stream handle is [collection, callback, events, open]; its   *)
(* $id is its position in rm.handles.  registered marks the handles whose  *)
(* callback is in the listeners map.                                       *)
(***************************************************************************)
MaxHandles == 2   \* streams opened per run

Collections == {"classes", "students"}
\* every subscribe call passes a closure of its own: callbacks are numbered
\* by the call that passed them
Callbacks == 1..MaxHandles
EventKinds == {"create", "update", "delete"}
EventFilters == {EventKinds, {"create"}}

\* last describes the latest operation on the manager: whether it threw,
\* how many teardown functions it invoked, whether it changed the maps
\* and, for an inbound event, its kind, the handles registered when it
\* came and the envelopes handed to callbacks; prev names the operation
\* before it, cbThrew tells whether a callback has thrown so far
NoOp == [op |-> "none", collection |-> "", threw |-> FALSE, teardowns |-> 0,
         changed |-> FALSE, kind |-> "", registered |-> {}, invoked |-> <<>>,
         afterThrow |-> FALSE]

RmIdle ==
  [subscriptions |-> [c \in Collections |-> 0],
   listeners |-> [c \in Collections |-> <<>>],
   handles |-> <<>>,
   last |-> NoOp, prev |-> "none", cbThrew |-> FALSE]

\* subscribe(collectionName, callback, events); fails tells whether
\* client.subscribe throws
Subscribe(name, callback, events, fails) ==
  /\ Len(rm.handles) < MaxHandles
  /\ IF name \notin Collections \/ fails
       THEN rm' = [rm EXCEPT !.prev = rm.last.op,
                             !.last = [NoOp EXCEPT !.op = "subscribe",
                                                   !.collection = name,
                                                   !.threw = TRUE]]
       ELSE rm' = [rm EXCEPT
              !.handles = Append(rm.handles,
                            [collection |-> name, callback |-> callback,
                             events |-> events, open |-> TRUE, registered |-> TRUE]),
              !.subscriptions[name] = Len(rm.handles) + 1,
              !.listeners[name] = Append(rm.listeners[name], callback),
              !.prev = rm.last.op,
              !.last = [NoOp EXCEPT !.op = "subscribe", !.collection = name,
                                    !.changed = TRUE]]
  /\ UNCHANGED <<store, auditLog, calls, pool, faults, losses, nowHour, weekday0,
                 rt, zone, hook, ap>>

\* the maps and handles after unsubscribe ran for collection name, the
\* teardown function throwing or not
Unsubscribed(r, name, teardownThrows) ==
  IF name \notin Collections THEN r
  ELSE IF r.subscriptions[name] = 0 \/ teardownThrows THEN r
  ELSE [r EXCEPT
         !.handles = [h \in 1..Len(r.handles) |->
                        IF h = r.subscriptions[name]
                          THEN [r.handles[h] EXCEPT !.open = FALSE,
                                                    !.registered = FALSE]
                        ELSE IF r.handles[h].collection = name
                          THEN [r.handles[h] EXCEPT !.registered = FALSE]
                        ELSE r.handles[h]],
         !.subscriptions[name] = 0,
         !.listeners[name] = <<>>]

Subscribed(r) == {c \in Collections : r.subscriptions[c] # 0}

\* unsubscribe(collectionName), also what the function subscribe returned
\* does
Unsubscribe(name, teardownThrows) ==
  /\ teardownThrows => name \in Subscribed(rm)
  /\ LET r == Unsubscribed(rm, name, teardownThrows)
     IN rm' = [r EXCEPT
          !.prev = rm.last.op,
          !.last = [NoOp EXCEPT !.op = "unsubscribe", !.collection = name,
                                !.teardowns = IF name \in Subscribed(rm) THEN 1 ELSE 0,
                                !.changed = r # rm]]
  /\ UNCHANGED <<store, auditLog, calls, pool, faults, losses, nowHour, weekday0,
                 rt, zone, hook, ap>>

RECURSIVE UnsubscribedEach(_, _, _)
UnsubscribedEach(r, names, throwing) ==
  IF names = {} THEN r
  ELSE LET name == CHOOSE c \in names : TRUE
       IN UnsubscribedEach(Unsubscribed(r, name, name \in throwing),
                           names \ {name}, throwing)

\* unsubscribeAll(); throwing is the set of collections whose teardown
\* function throws
UnsubscribeAll(throwing) ==
  /\ throwing \subseteq Subscribed(rm)
  /\ LET r == UnsubscribedEach(rm, Subscribed(rm), throwing)
     IN rm' = [r EXCEPT
          !.prev = rm.last.op,
          !.last = [NoOp EXCEPT !.op = "unsubscribeAll",
                                !.teardowns = Cardinality(Subscribed(rm)),
                                !.changed = r # rm]]
  /\ UNCHANGED <<store, auditLog, calls, pool, faults, losses, nowHour, weekday0,
                 rt, zone, hook, ap>>

\* Delivers without the test of the event filter
Delivers_NoFilter(handle, name, kind) ==
  handle.open /\ handle.collection = name

\* the handler given to client.subscribe: whether the stream handle hands
\* an event of this kind on this collection to its callback
Delivers(handle, name, kind) ==
  handle.open /\ handle.collection = name /\ kind \in handle.events

RECURSIVE Dispatched(_, _, _, _)
\* the envelopes handed to callbacks, in the order of the streams
Dispatched(handles, from, name, kind) ==
  IF from > Len(handles) THEN <<>>
  ELSE (IF Delivers(handles[from], name, kind)
          THEN <<[handle |-> from, collection |-> name, eventType |-> kind]>>
          ELSE <<>>)
       \o Dispatched(handles, from + 1, name, kind)

\* an inbound change event on the channel of collection name; cbThrows
\* tells whether the callbacks throw when invoked (the handler catches it)
RealtimeEvent(name, kind, cbThrows) ==
  /\ name \in Collections
  /\ LET invoked == Dispatched(rm.handles, 1, name, kind)
     IN rm' = [rm EXCEPT
          !.prev = rm.last.op,
          !.cbThrew = rm.cbThrew \/ (cbThrows /\ invoked # <<>>),
          !.last = [NoOp EXCEPT
                      !.op = "event", !.collection = name, !.kind = kind,
                      !.registered = {h \in 1..Len(rm.handles) :
                                        /\ rm.handles[h].collection = name
                                        /\ rm.handles[h].registered},
                      !.invoked = invoked,
                      !.afterThrow = rm.cbThrew]]
  /\ UNCHANGED <<store, auditLog, calls, pool, faults, losses, nowHour, weekday0,
                 rt, zone, hook, ap>>

\* getStatus()
RECURSIVE SumLen(_, _)
SumLen(listeners, names) ==
  IF names = {} THEN 0
  ELSE LET name == CHOOSE c \in names : TRUE
       IN Len(listeners[name]) + SumLen(listeners, names \ {name})

getStatus ==
  [subscriptionCount |-> Cardinality(Subscribed(rm)),
   listenersCount |-> SumLen(rm.listeners, Collections)]

(***************************************************************************)
(* useAppwrite (hooks/useAppwrite.js): the in-memory mirror realtimeData   *)
(* that the handler of subscribeToCollection keeps.  A document is its $id *)
(* and its content; one step is one invocation of the handler.             *)
(***************************************************************************)
MaxEvents == 4   \* change events delivered per run

DocIds == {1, 2}
Contents == {"a", "b"}

Doc(id, content) == [id |-> id, content |-> content]

\* seen: the ids events were about; created, deleted, latest: what the
\* events said of each id; last: the event handled last
ApIdle ==
  [subscriptions |-> {},
   realtimeData |-> [c \in Collections |-> <<>>],
   seen |-> [c \in Collections |-> {}],
   created |-> [c \in Collections |-> {}],
   deleted |-> [c \in Collections |-> {}],
   latest |-> [c \in Collections |-> [id \in DocIds |-> ""]],
   last |-> [collection |-> "", eventType |-> "", id |-> 0],
   events |-> 0]

\* subscribeToCollection(collectionName), with real-time enabled
SubscribeToCollection(name) ==
  /\ name \in Collections
  /\ name \notin ap.subscriptions
  /\ ap' = [ap EXCEPT !.subscriptions = ap.subscriptions \cup {name}]
  /\ UNCHANGED <<store, auditLog, calls, pool, faults, losses, nowHour, weekday0,
                 rt, zone, hook, rm>>

RECURSIVE MapReplace(_, _)
\* items.map(item => item.$id === document.$id ? document : item)
MapReplace(items, document) ==
  IF items = <<>> THEN <<>>
  ELSE <<IF Head(items).id = document.id THEN document ELSE Head(items)>>
       \o MapReplace(Tail(items), document)

RECURSIVE FilterOut(_, _)
\* items.filter(item => item.$id !== document.$id)
FilterOut(items, document) ==
  IF items = <<>> THEN <<>>
  ELSE (IF Head(items).id # document.id THEN <<Head(items)>> ELSE <<>>)
       \o FilterOut(Tail(items), document)

\* MirrorUpdate whose update case adds a document the mirror does not hold
MirrorUpdate_Upsert(items, eventType, document) ==
  CASE eventType = "create" -> Append(items, document)
    [] eventType = "update" ->
         IF \E n \in 1..Len(items) : items[n].id = document.id
           THEN MapReplace(items, document) ELSE Append(items, document)
    [] eventType = "delete" -> FilterOut(items, document)
    [] OTHER -> items

\* the switch of the updater given to setRealtimeData: the new list of
\* the collection
MirrorUpdate(items, eventType, document) ==
  CASE eventType = "create" -> Append(items, document)
    [] eventType = "update" -> MapReplace(items, document)
    [] eventType = "delete" -> FilterOut(items, document)
    [] OTHER -> items

\* one change event handled by the handler of collection name.  Ids are
\* made by ID.unique(): a create is the first event there is about its id.
MirrorEvent(name, eventType, document) ==
  /\ name \in ap.subscriptions
  /\ ap.events < MaxEvents
  /\ eventType = "create" => document.id \notin ap.seen[name]
  /\ ap' = [ap EXCEPT
       !.realtimeData[name] = MirrorUpdate(ap.realtimeData[name], eventType, document),
       !.seen[name] = ap.seen[name] \cup {document.id},
       !.created[name] = IF eventType = "create"
                           THEN ap.created[name] \cup {document.id}
                           ELSE ap.created[name],
       !.deleted[name] = IF eventType = "delete"
                           THEN ap.deleted[name] \cup {document.id}
                           ELSE ap.deleted[name],
       !.latest[name][document.id] =
            IF eventType \in {"create", "update"} THEN document.content
            ELSE ap.latest[name][document.id],
       !.last = [collection |-> name, eventType |-> eventType, id |-> document.id],
       !.events = ap.events + 1]
  /\ UNCHANGED <<store, auditLog, calls, pool, faults, losses, nowHour, weekday0,
                 rt, zone, hook, rm>>

(***************************************************************************)
(* Requests and initial states                                             *)
(***************************************************************************)
FarDay == MAX_ADVANCE_DAYS + 1

Session(date, batchName, status) ==
  [date |-> date, batch_name |-> batchName, status |-> status]

BatchLists == { <<>>, <<"morning">>, <<"morning", "evening">>,
                <<"morning", "Morning">>, <<"yoga">> }

Excludes == { [has |-> FALSE, days |-> {}], [has |-> TRUE, days |-> {}],
              [has |-> TRUE, days |-> {1}] }

SmallPool ==
  [schedule |->
     { [startDate |-> s, endDate |-> e, batches |-> b, hasExclude |-> x.has,
        excludeDays |-> x.days, skipConflicts |-> k, action |-> a] :
         s \in {NoDate} \cup (0..MaxDay), e \in {NoDate, FarDay} \cup (1..MaxDay),
         b \in BatchLists, x \in Excludes, k \in BOOLEAN, a \in {"schedule", ""} },
   cancel |->
     { [NoReq EXCEPT !.startDate = s, !.endDate = e, !.batches = b] :
         s \in {NoDate} \cup (0..MaxDay), e \in {NoDate, FarDay} \cup (1..MaxDay),
         b \in BatchLists },
   check |->
     { [dates |-> d, batches |-> b] :
         d \in { <<>>, <<1>>, <<1, 2>>, <<2, 2>> }, b \in BatchLists },
   list |->
     { [startDate |-> s, endDate |-> MaxDay, isArray |-> a, batches |-> b,
        statuses |-> st] :
         s \in {1, MaxDay}, a \in BOOLEAN,
         b \in { <<>>, <<"morning">>, <<"yoga">> },
         st \in { {}, {"scheduled"} } },
   stats |-> {"day", "week", "month", "year"}]

AllBatches == <<"morning", "evening", "weekend">>

BulkPool ==
  [schedule |->
     { [startDate |-> 1, endDate |-> e, batches |-> AllBatches, hasExclude |-> x.has,
        excludeDays |-> x.days, skipConflicts |-> k, action |-> "schedule"] :
         e \in (BulkSpan - 1)..(BulkSpan + 1),
         x \in { [has |-> FALSE, days |-> {}], [has |-> TRUE, days |-> {}] },
         k \in BOOLEAN },
   cancel |->
     { [NoReq EXCEPT !.startDate = 1, !.endDate = e, !.batches = AllBatches] :
         e \in (BulkSpan - 1)..(BulkSpan + 1) },
   check |-> { [dates |-> <<1, 2>>, batches |-> b] : b \in {AllBatches, <<"yoga">>} },
   list |-> { [NoQuery EXCEPT !.startDate = 1, !.endDate = BulkSpan] },
   stats |-> {"month"}]

\* requests over days 1..DatesSpan, for runs in several time zones
DatesPool ==
  [schedule |->
     { [startDate |-> 1, endDate |-> e, batches |-> b, hasExclude |-> x.has,
        excludeDays |-> x.days, skipConflicts |-> k, action |-> "schedule"] :
         e \in 2..DatesSpan, b \in { <<"morning">>, <<"morning", "evening">> },
         x \in { [has |-> FALSE, days |-> {}], [has |-> TRUE, days |-> {}] },
         k \in BOOLEAN },
   cancel |->
     { [NoReq EXCEPT !.startDate = 1, !.endDate = e, !.batches = <<"morning">>] :
         e \in 2..DatesSpan },
   check |-> { [dates |-> <<1, 2>>, batches |-> <<"morning">>] },
   list |-> { [NoQuery EXCEPT !.startDate = 1, !.endDate = DatesSpan] },
   stats |-> {"month"}]

\* overlapping schedule requests for calls in flight together
RacePool ==
  [schedule |->
     { [startDate |-> 1, endDate |-> e, batches |-> b, hasExclude |-> TRUE,
        excludeDays |-> {}, skipConflicts |-> FALSE, action |-> "schedule"] :
         e \in 1..2, b \in { <<"morning">>, <<"morning", "evening">> } },
   cancel |-> {}, check |-> {}, list |-> {}, stats |-> {}]

Pool ==
  CASE pool = "bulk" -> BulkPool
    [] pool = "dates" -> DatesPool
    [] pool = "race" -> RacePool
    [] OTHER -> SmallPool

InitStores ==
  { <<>>,
    <<Session(1, "Morning Batch", "scheduled")>>,
    <<Session(1, "Morning Batch", "cancelled"), Session(2, "Morning Batch", "scheduled"),
      Session(2, "Evening Batch", "completed"), Session(1, "Evening Batch", "rescheduled")>>,
    <<Session(2, "Morning Batch", "scheduled"), Session(2, "Morning Batch", "scheduled")>> }

\* <<time of day, weekday of day 0>>: a Saturday morning (day 1 is a
\* Sunday) and a Wednesday at 23:00 (day 1 starts within MIN_ADVANCE_HOURS)
Clocks == { <<10, 6>>, <<23, 3>> }

Init ==
  /\ store \in InitStores
  /\ auditLog = <<>>
  /\ calls = [c \in Calls |-> IdleCall]
  /\ pool = "small"
  /\ faults = MaxFaults
  /\ losses = MaxLosses
  /\ \E clock \in Clocks : nowHour = clock[1] /\ weekday0 = clock[2]
  /\ rt = RtIdle
  /\ zone = UTC
  /\ hook = HookIdle
  /\ rm = RmIdle
  /\ ap = ApIdle

\* serial use: one call at a time, in slot 1
Solo(c) == c = 1 /\ \A d \in Calls : calls[d].pc = "idle"

Next ==
  \/ \E c \in Calls : Solo(c) /\ \E q \in Pool.check : CheckStart(c, q)
  \/ \E c \in Calls : Solo(c) /\ \E r \in Pool.schedule : ScheduleStart(c, r)
  \/ \E c \in Calls : Solo(c) /\ \E r \in Pool.cancel : CancelStart(c, r)
  \/ \E c \in Calls : Solo(c) /\ \E q \in Pool.list : ListStart(c, q)
  \/ \E c \in Calls : Solo(c) /\ \E p \in Pool.stats :
       \E dom \in {1, 15}, monthDays \in {28, 31} : StatsStart(c, p, dom, monthDays)
  \/ \E c \in Calls, online \in BOOLEAN : \E out \in ReadOutcomes :
       ListQuery(c, out, online)
  \/ \E c \in Calls, online \in BOOLEAN : \E out \in ReadOutcomes :
       ConflictQuery(c, out, online)
  \/ \E c \in Calls, online \in BOOLEAN : \E a \in {"user", "none", "error"} :
       GetCurrentUser(c, a, online)
  \/ \E c \in Calls, online \in BOOLEAN : \E out \in WriteOutcomes :
       CreateClass(c, out, online)
  \/ \E c \in Calls, online \in BOOLEAN : \E out \in ReadOutcomes :
       FindClasses(c, out, online)
  \/ \E c \in Calls, online \in BOOLEAN : \E out \in WriteOutcomes :
       CancelClass(c, out, online)
  \/ \E c \in Calls, online \in BOOLEAN : \E out \in WriteOutcomes :
       LogActivity(c, out, online)

Spec == Init /\ [][Next]_vars

(***************************************************************************)
(* Bulk requests: long date ranges, few injected failures                  *)
(***************************************************************************)
BulkFaults == 1

InitBulk ==
  /\ store \in { <<>>, <<Session(1, "Morning Batch", "scheduled")>> }
  /\ auditLog = <<>>
  /\ calls = [c \in Calls |-> IdleCall]
  /\ pool = "bulk"
  /\ faults = BulkFaults
  /\ losses = 0
  /\ nowHour = 10
  /\ weekday0 = 3
  /\ rt = RtIdle
  /\ zone = UTC
  /\ hook = HookIdle
  /\ rm = RmIdle
  /\ ap = ApIdle

SpecBulk == InitBulk /\ [][Next]_vars

(***************************************************************************)
(* The same operations in browsers of several time zones                   *)
(***************************************************************************)
\* UTC; five hours west of it with no clock change (America/Bogota); one
\* hour east of it with the clocks put forward at 01:00 UTC of day 2
\* (Europe/Berlin on the last Sunday of March)
Zones ==
  { UTC,
    [std |-> -5, hasDst |-> FALSE, dstAt |-> 0],
    [std |-> 1, hasDst |-> TRUE, dstAt |-> 24 * 2 + 1] }

InitDates ==
  /\ store \in { <<>>, <<Session(1, "Morning Batch", "scheduled")>> }
  /\ auditLog = <<>>
  /\ calls = [c \in Calls |-> IdleCall]
  /\ pool = "dates"
  /\ faults = BulkFaults
  /\ losses = 0
  /\ nowHour = 10
  /\ weekday0 = 5
  /\ rt = RtIdle
  /\ zone \in Zones
  /\ hook = HookIdle
  /\ rm = RmIdle
  /\ ap = ApIdle

SpecDates == InitDates /\ [][Next]_vars

(***************************************************************************)
(* scheduleClasses calls in flight together: every await of a call is a    *)
(* point where the other call may run                                      *)
(***************************************************************************)
InitRace ==
  /\ store \in { <<>>, <<Session(1, "Morning Batch", "scheduled")>> }
  /\ auditLog = <<>>
  /\ calls = [c \in Calls |-> IdleCall]
  /\ pool = "race"
  /\ faults = BulkFaults
  /\ losses = 0
  /\ nowHour = 10
  /\ weekday0 = 3
  /\ rt = RtIdle
  /\ zone = UTC
  /\ hook = HookIdle
  /\ rm = RmIdle
  /\ ap = ApIdle

NextRace ==
  \/ \E c \in Calls : \E r \in Pool.schedule : ScheduleStart(c, r)
  \/ \E c \in Calls, online \in BOOLEAN : \E out \in ReadOutcomes :
       ConflictQuery(c, out, online)
  \/ \E c \in Calls, online \in BOOLEAN : \E a \in {"user", "none", "error"} :
       GetCurrentUser(c, a, online)
  \/ \E c \in Calls, online \in BOOLEAN : \E out \in WriteOutcomes :
       CreateClass(c, out, online)
  \/ \E c \in Calls, online \in BOOLEAN : \E out \in WriteOutcomes :
       LogActivity(c, out, online)

SpecRace == InitRace /\ [][NextRace]_vars

(***************************************************************************)
(* The mirror of useAppwrite on its own                                    *)
(***************************************************************************)
InitMirror ==
  /\ store = <<>>
  /\ auditLog = <<>>
  /\ calls = [c \in Calls |-> IdleCall]
  /\ pool = "small"
  /\ faults = 0
  /\ losses = 0
  /\ nowHour = 10
  /\ weekday0 = 3
  /\ rt = RtIdle
  /\ zone = UTC
  /\ hook = HookIdle
  /\ rm = RmIdle
  /\ ap = ApIdle

NextMirror ==
  \/ \E name \in Collections : SubscribeToCollection(name)
  \/ \E name \in Collections, eventType \in EventKinds \cup {"other"},
        id \in DocIds, content \in Contents :
       MirrorEvent(name, eventType, Doc(id, content))

SpecMirror == InitMirror /\ [][NextMirror]_vars

(***************************************************************************)
(* retryOperation on its own                                               *)
(***************************************************************************)
InitRetry ==
  /\ store = <<>>
  /\ auditLog = <<>>
  /\ calls = [c \in Calls |-> IdleCall]
  /\ pool = "small"
  /\ faults = 0
  /\ losses = 0
  /\ nowHour = 10
  /\ weekday0 = 3
  /\ rt = RtIdle
  /\ zone = UTC
  /\ hook = HookIdle
  /\ rm = RmIdle
  /\ ap = ApIdle

NextRetry ==
  \/ \E m \in (-1)..MaxRetriesBound, b \in BaseDelays : RetryCall(m, b)
  \/ \E online \in BOOLEAN : \E out \in AllCodes \cup {Str("ok")} :
       RetryIteration(out, online)
  \/ \E online \in BOOLEAN : RetryLoopExit(online)

SpecRetry == InitRetry /\ [][NextRetry]_vars

(***************************************************************************)
(* The bulk operations of useScheduling on their own                       *)
(***************************************************************************)
InitHook ==
  /\ store = <<>>
  /\ auditLog = <<>>
  /\ calls = [c \in Calls |-> IdleCall]
  /\ pool = "small"
  /\ faults = 0
  /\ losses = 0
  /\ nowHour = 10
  /\ weekday0 = 3
  /\ rt = RtIdle
  /\ zone = UTC
  /\ hook \in {[HookIdle EXCEPT !.autoRefresh = r] : r \in BOOLEAN}
  /\ rm = RmIdle
  /\ ap = ApIdle

NextHook ==
  \/ \E a \in HookOps, kind \in {"schedule", "cancel"} : HookBulkCall(a, kind)
  \/ \E a \in HookOps, success \in BOOLEAN, cbThrows \in BOOLEAN :
       HookResult(a, success, cbThrows)
  \/ \E a \in HookOps, ok \in BOOLEAN : HookRefreshDone(a, ok)
  \/ HookCleanup

SpecHook == InitHook /\ [][NextHook]_vars

(***************************************************************************)
(* The RealtimeManager on its own                                          *)
(***************************************************************************)
InitRealtime ==
  /\ store = <<>>
  /\ auditLog = <<>>
  /\ calls = [c \in Calls |-> IdleCall]
  /\ pool = "small"
  /\ faults = 0
  /\ losses = 0
  /\ nowHour = 10
  /\ weekday0 = 3
  /\ rt = RtIdle
  /\ zone = UTC
  /\ hook = HookIdle
  /\ rm = RmIdle
  /\ ap = ApIdle

NextRealtime ==
  \/ \E name \in Collections \cup {"unknown"}, cb \in Callbacks,
        events \in EventFilters, fails \in BOOLEAN :
       /\ cb = Len(rm.handles) + 1
       /\ Subscribe(name, cb, events, fails)
  \/ \E name \in Collections \cup {"unknown"}, throws \in BOOLEAN :
       Unsubscribe(name, throws)
  \/ \E throwing \in SUBSET Collections : UnsubscribeAll(throwing)
  \/ \E name \in Collections, kind \in EventKinds, cbThrows \in BOOLEAN :
       RealtimeEvent(name, kind, cbThrows)

SpecRealtime == InitRealtime /\ [][NextRealtime]_vars

(***************************************************************************)
(* Properties of retryOperation (checked under SpecRetry)                  *)
(***************************************************************************)
RtFinished == rt.status \in {"returned", "thrown"}
RtAllRetryable == \A n \in 1..Len(rt.hist) : rt.hist[n] = "R"

\* C4: the operation is never invoked more than maxRetries + 1 times, and a
\* run in which every attempt failed with a retryable error ends by failing
\* after exactly maxRetries + 1 invocations.
C4_RetryCeiling ==
  /\ rt.status # "idle" => rt.invocations <= rt.maxRetries + 1
  /\ (RtFinished /\ RtAllRetryable)
       => (rt.status = "thrown" /\ rt.invocations = rt.maxRetries + 1)

\* a run with the default maxRetries = 3 that failed retryably four times
C4_Witness ==
  /\ rt.status = "thrown"
  /\ rt.maxRetries = DefaultMaxRetries
  /\ RtAllRetryable
  /\ rt.invocations = 4

\* C5: an attempt that fails with a non-retryable error is the last one: the
\* run has failed with the classification of that very error, nothing was
\* invoked and no backoff was slept after it; an attempt that succeeds is
\* the last one too and the run has returned.
C5_NonRetryablePropagates ==
  /\ \A n \in 1..Len(rt.hist) :
       rt.hist[n] = "N" =>
         /\ n = Len(rt.hist)
         /\ rt.invocations = n
         /\ Len(rt.delays) = n - 1
         /\ rt.status = "thrown"
         /\ rt.err.code = rt.lastError
         /\ rt.err.type = ERROR_CODE_MAPPING(rt.lastError)
         /\ ~rt.err.retryable
         /\ rt.err.success = FALSE
  /\ \A n \in 1..Len(rt.hist) :
       rt.hist[n] = "ok" =>
         /\ n = Len(rt.hist)
         /\ rt.invocations = n
         /\ Len(rt.delays) = n - 1
         /\ rt.status = "returned"

\* a run that was retried once and then failed with a non-retryable error
C5_Witness ==
  /\ rt.status = "thrown"
  /\ rt.hist = <<"R", "N">>
  /\ rt.maxRetries = DefaultMaxRetries

\* C6 (as claimed): the error of a run that gave up after maxRetries + 1
\* retryable failures carries finalAttempt = true in its context.
C6_FinalAttemptTagged ==
  (/\ rt.status = "thrown"
   /\ rt.maxRetries >= 0
   /\ RtAllRetryable
   /\ Len(rt.hist) = rt.maxRetries + 1)
    => rt.err.context.finalAttempt

\* C21: nothing is slept before the first attempt and, before the k-th
\* retry, min(baseDelay * 2^(k-1), 10000) ms; so the delays never decrease
\* and never exceed 10000 ms, and are 1000, 2000, 4000 with the defaults.
C21_BackoffDelays ==
  /\ Len(rt.delays) = (IF rt.invocations = 0 THEN 0 ELSE rt.invocations - 1)
  /\ \A k \in 1..Len(rt.delays) :
       /\ rt.delays[k] = (IF rt.baseDelay * 2^(k - 1) <= 10000
                            THEN rt.baseDelay * 2^(k - 1) ELSE 10000)
       /\ rt.delays[k] <= 10000
       /\ k > 1 => rt.delays[k - 1] <= rt.delays[k]
  /\ (rt.baseDelay = DefaultBaseDelay /\ rt.invocations = DefaultMaxRetries + 1)
       => rt.delays = <<1000, 2000, 4000>>

\* a run with baseDelay = 4000 whose third retry met the cap
C21_Witness ==
  /\ rt.baseDelay = 4000
  /\ rt.delays = <<4000, 8000, 10000>>

\* C19: the retryable flag of a classified error is true exactly when its
\* kind is NETWORK, TIMEOUT or RATE_LIMIT, or its code is a number from 500
\* to 599, or its code is one of the strings service_unavailable,
\* connection_timeout, database_error; so it is false for 400, 401, 403,
\* 404, 409 and for codes the table does not know.
C19_RetryableClassification ==
  rt.status = "thrown" =>
    /\ rt.err.retryable <=>
         \/ rt.err.type \in {"NETWORK_ERROR", "TIMEOUT_ERROR", "RATE_LIMIT_ERROR"}
         \/ \E n \in 500..599 : rt.err.code = Num(n)
         \/ \E s \in {"service_unavailable", "connection_timeout", "database_error"} :
              rt.err.code = Str(s)
    /\ rt.err.code \in {Num(400), Num(401), Num(403), Num(404), Num(409), Num(499),
                        Num(600), NoCode, Str("collection_not_found")}
         => ~rt.err.retryable
    /\ rt.err.code \in {Num(500), Num(502), Num(503), Num(504), Num(599), Num(429),
                        Str("network_error"), Str("rate_limit_exceeded")}
         => rt.err.retryable

\* a run that gave up on a 504, a code the table does not map: its error
\* is of kind UNKNOWN and retryable
C19_Witness ==
  /\ rt.status = "thrown"
  /\ rt.err.code = Num(504)
  /\ rt.err.type = "UNKNOWN_ERROR"
  /\ rt.err.retryable

(***************************************************************************)
(* Properties of the scheduling service (checked under Spec; C3 under      *)
(* SpecBulk)                                                               *)
(***************************************************************************)
Done(c) == calls[c].pc = "done"

\* a session of docs with this date and batch name has status scheduled
HasScheduled(docs, date, batchName) ==
  \E n \in 1..Len(docs) :
    /\ docs[n].date = date
    /\ docs[n].batch_name = batchName
    /\ docs[n].status = "scheduled"

\* the lowest $id among them
FirstScheduled(docs, date, batchName) ==
  CHOOSE n \in 1..Len(docs) :
    /\ docs[n].date = date /\ docs[n].batch_name = batchName
    /\ docs[n].status = "scheduled"
    /\ \A m \in 1..(n - 1) :
         ~(docs[m].date = date /\ docs[m].batch_name = batchName
           /\ docs[m].status = "scheduled")

ItemName(k, i) == BatchName(ToUpperCase(ItemBatch(k, i)))

\* the call got past validation and past the conflict check
PassedChecks(k) == k.valid /\ (k.req.skipConflicts \/ k.checked)

\* C1 (as claimed): a scheduleClasses call that passed validation and the
\* conflict check has, when it returns, attempted every work item exactly
\* once, in order, each one counted either as scheduled or as failed.
C1_EveryItemAttempted ==
  \A c \in Calls :
    (calls[c].op = "schedule" /\ Done(c) /\ PassedChecks(calls[c]))
      => /\ calls[c].tried = [i \in 1..NumItems(calls[c]) |-> i]
         /\ Len(calls[c].classes) + Len(calls[c].failed) = NumItems(calls[c])
         /\ calls[c].env.success =>
              /\ calls[c].env.data.count = Len(calls[c].classes)
              /\ calls[c].env.data.failed = calls[c].failed
              /\ calls[c].env.data.count + calls[c].env.data.errors
                   = NumItems(calls[c])

\* the request of a finished scheduleClasses call is one its validation
\* rejects, or one whose conflict check finds a conflict or fails
Rejected(k) ==
  \/ Len(validateSchedulingRequest(k.req, nowHour)) > 0
  \/ /\ ~k.req.skipConflicts
     /\ \/ k.checkFailed
        \/ \E i \in 1..NumItems(k) :
             HasScheduled(k.store0, ItemDate(k, i), ItemName(k, i))

\* C2: a scheduleClasses call rejected by validation, or (skipConflicts =
\* false) by a conflict or by a failed conflict query, returns a failure
\* envelope, has issued no create and leaves the store as it found it.
C2_NoPartialScheduling ==
  \A c \in Calls :
    (calls[c].op = "schedule" /\ Done(c) /\ Rejected(calls[c]))
      => /\ ~calls[c].env.success
         /\ "create" \notin calls[c].remote
         /\ calls[c].added = <<>>
         /\ store = calls[c].store0

\* a call rejected because its conflict check found a conflict
C2_Witness ==
  \E c \in Calls :
    /\ calls[c].op = "schedule" /\ Done(c) /\ calls[c].valid
    /\ Len(calls[c].conflicts) > 0
    /\ ~calls[c].env.success

\* the number of work items the expansion of a request produces
ExpandedItems(k) ==
  IF k.req.startDate = NoDate \/ k.req.endDate = NoDate THEN 0
  ELSE Len(generateDateRange(NewDate(k.req.startDate), NewDate(k.req.endDate),
             IF k.op = "cancel" THEN {}
             ELSE IF k.req.hasExclude THEN k.req.excludeDays ELSE {0}))
       * Len(k.req.batches)

\* C3 (as claimed): a scheduleClasses or cancelClasses request whose
\* expansion has more than MAX_BULK_OPERATIONS work items is rejected by
\* validation and no remote call is made for it.
C3_SizeBoundRejects ==
  \A c \in Calls :
    (calls[c].op \in {"schedule", "cancel"}
     /\ ExpandedItems(calls[c]) > MAX_BULK_OPERATIONS)
      => /\ ~calls[c].valid
         /\ calls[c].remote = {}
         /\ calls[c].pc = "done"

\* a finished scheduleClasses call that got past validation and the
\* conflict check
ScheduleRan(c) ==
  calls[c].op = "schedule" /\ Done(c) /\ PassedChecks(calls[c])

\* the three-way classification the result of a call with work items obeys
Classified(k) ==
  /\ (Len(k.classes) = NumItems(k) /\ Len(k.failed) = 0) => k.env.success
  /\ (Len(k.classes) > 0 /\ Len(k.failed) > 0)
       => (k.env.success /\ k.env.data.errors > 0)
  /\ Len(k.classes) = 0 => ~k.env.success

\* C7 (as claimed): for every work-item list that passes validation and the
\* conflict check, the envelope is a success when every item succeeded, a
\* success with data.errors > 0 when some succeeded and some failed, and a
\* failure when no session was created.
C7_Classification_Original ==
  \A c \in Calls : ScheduleRan(c) => Classified(calls[c])

\* C7 (amended): the classification holds for every non-empty work-item
\* list; for the empty list (every date excluded) the envelope is a
\* success with data.scheduled = 0 and data.errors = 0 exactly when the
\* current-user lookup succeeded, although no session was created.
C7_Classification ==
  \A c \in Calls :
    ScheduleRan(c) =>
      IF NumItems(calls[c]) > 0
        THEN /\ Classified(calls[c])
             /\ calls[c].env.success =>
                  /\ calls[c].env.data.count = Len(calls[c].classes)
                  /\ calls[c].env.data.errors = Len(calls[c].failed)
        ELSE /\ calls[c].env.success <=> calls[c].by # ""
             /\ calls[c].env.success =>
                  (calls[c].env.data.count = 0 /\ calls[c].env.data.errors = 0)

\* a call over a range whose every date is excluded: nothing is created
\* and the envelope is a success
C7_Witness ==
  \E c \in Calls :
    /\ ScheduleRan(c) /\ NumItems(calls[c]) = 0
    /\ calls[c].req.startDate # NoDate
    /\ calls[c].by # ""
    /\ calls[c].env.success /\ calls[c].env.data.count = 0

\* C8 (as claimed): with skipConflicts = true, scheduleClasses creates no
\* session for a work item whose (date, batch) already had a scheduled
\* session when the call began.
C8_SkipsConflictingItems ==
  \A c \in Calls :
    (calls[c].op = "schedule" /\ calls[c].req.skipConflicts)
      => \A n \in 1..Len(calls[c].added) :
           ~HasScheduled(calls[c].store0, store[calls[c].added[n]].date,
                         store[calls[c].added[n]].batch_name)

\* the (date, batch name) pairs of the work items of a call
ItemPairs(k) == {<<ItemDate(k, i), ItemName(k, i)>> : i \in 1..NumItems(k)}

\* the entries of a conflict list that are about one pair
EntriesFor(conflicts, pair) ==
  {n \in 1..Len(conflicts) :
     conflicts[n].date = pair[1] /\ conflicts[n].batch = pair[2]}

\* the work items of a call that are about one pair
ItemsFor(k, pair) ==
  {i \in 1..NumItems(k) : ItemDate(k, i) = pair[1] /\ ItemName(k, i) = pair[2]}

\* a finished checkSchedulingConflicts call all of whose queries succeeded
CheckSucceeded(c) ==
  calls[c].op = "check" /\ Done(c) /\ calls[c].env.success

\* what C9 says of the entries besides their number
ConflictEntriesSound(k) ==
  /\ k.env.data.hasConflicts <=> Len(k.env.data.conflicts) > 0
  /\ \A n \in 1..Len(k.env.data.conflicts) :
       /\ HasScheduled(store, k.env.data.conflicts[n].date,
                       k.env.data.conflicts[n].batch)
       /\ k.env.data.conflicts[n].existingClass
            = FirstScheduled(store, k.env.data.conflicts[n].date,
                             k.env.data.conflicts[n].batch)

\* C9 (as claimed): when every query succeeds, the conflict list has
\* exactly one entry for each (date, batch) pair of dates x batches that
\* has a scheduled session and none for any other pair, each entry names
\* the first session found, and hasConflicts says the list is non-empty.
C9_OneEntryPerPair_Original ==
  \A c \in Calls :
    CheckSucceeded(c) =>
      /\ ConflictEntriesSound(calls[c])
      /\ \A pair \in ItemPairs(calls[c]) :
           Cardinality(EntriesFor(calls[c].env.data.conflicts, pair))
             = IF HasScheduled(store, pair[1], pair[2]) THEN 1 ELSE 0

\* C9 (amended): when every query succeeds, the conflict list has one entry
\* for each work item (each occurrence of a pair in dates x batches) whose
\* pair has a scheduled session and none for any other, hence exactly one
\* per pair only when no pair occurs twice; each entry names the first
\* session found, and hasConflicts says the list is non-empty.
C9_OneEntryPerItem ==
  \A c \in Calls :
    CheckSucceeded(c) =>
      /\ ConflictEntriesSound(calls[c])
      /\ \A pair \in ItemPairs(calls[c]) :
           Cardinality(EntriesFor(calls[c].env.data.conflicts, pair))
             = IF HasScheduled(store, pair[1], pair[2])
                 THEN Cardinality(ItemsFor(calls[c], pair)) ELSE 0

\* a check whose input names one pair twice and that reports it twice,
\* beside a pair it reports nothing for
C9_Witness ==
  \E c \in Calls :
    /\ CheckSucceeded(c)
    /\ \E pair \in ItemPairs(calls[c]) :
         /\ Cardinality(ItemsFor(calls[c], pair)) = 2
         /\ Cardinality(EntriesFor(calls[c].env.data.conflicts, pair)) = 2
    /\ \E pair \in ItemPairs(calls[c]) : ~HasScheduled(store, pair[1], pair[2])

\* C10: a cancelClasses call that passes validation and whose queries all
\* succeed and find no scheduled session returns a success envelope with
\* data.cancelled = 0, having issued no update and changed nothing.
C10_CancelNoneIsSuccess ==
  \A c \in Calls :
    (/\ calls[c].op = "cancel" /\ Done(c) /\ calls[c].valid
     /\ calls[c].tried = [i \in 1..NumItems(calls[c]) |-> i]
     /\ Len(calls[c].failed) = 0
     /\ \A i \in 1..NumItems(calls[c]) :
          ~HasScheduled(calls[c].store0, ItemDate(calls[c], i),
                        ItemName(calls[c], i)))
      => /\ calls[c].env.success
         /\ calls[c].env.data.count = 0
         /\ "update" \notin calls[c].remote
         /\ store = calls[c].store0

\* a cancellation that queried every pair, found nothing and returned
C10_Witness ==
  \E c \in Calls :
    /\ calls[c].op = "cancel" /\ Done(c) /\ calls[c].valid
    /\ NumItems(calls[c]) > 1
    /\ calls[c].tried = [i \in 1..NumItems(calls[c]) |-> i]
    /\ Len(calls[c].failed) = 0 /\ Len(calls[c].classes) = 0
    /\ "query" \in calls[c].remote
    /\ calls[c].env.success

\* a finished cancelClasses call that passed validation, got the current
\* user and so ran its loop over every pair
CancelRan(c) ==
  /\ calls[c].op = "cancel" /\ Done(c) /\ calls[c].valid
  /\ calls[c].by # ""

\* the sessions a call turned from scheduled to cancelled
CancelledBy(k) ==
  {n \in 1..Len(k.store0) :
     k.store0[n].status = "scheduled" /\ store[n].status = "cancelled"}

C12_WholeBatchFailure ==
  \A c \in Calls :
    (/\ CancelRan(c)
     /\ Len(calls[c].classes) = 0
     /\ Len(calls[c].failed) > 0)
      => ~calls[c].env.success

ErrorTypeNames ==
  {"NETWORK_ERROR", "AUTHENTICATION_ERROR", "AUTHORIZATION_ERROR",
   "PERMISSION_ERROR", "VALIDATION_ERROR", "NOT_FOUND_ERROR", "CONFLICT_ERROR",
   "RATE_LIMIT_ERROR", "SERVER_ERROR", "UNKNOWN_ERROR", "CONNECTION_ERROR",
   "TIMEOUT_ERROR"}

\* C13: whatever the input and whatever remote calls fail, a facade call
\* (scheduleClasses, cancelClasses, checkSchedulingConflicts,
\* getScheduledClasses, getClassStatistics) that has ended has returned an
\* envelope, either a success or a classified error; no exception escaped.
C13_FacadeNeverThrows ==
  \A c \in Calls :
    Done(c) =>
      /\ calls[c].env.returned
      /\ \/ calls[c].env.success /\ calls[c].env.data.present
         \/ /\ ~calls[c].env.success
            /\ ~calls[c].env.error.success
            /\ calls[c].env.error.type \in ErrorTypeNames

\* getClassStatistics whose listing failed for good returns the classified
\* error of getScheduledClasses
C13_Witness ==
  \E c \in Calls :
    /\ Done(c) /\ calls[c].op = "stats"
    /\ "query" \in calls[c].remote
    /\ calls[c].env.returned /\ ~calls[c].env.success
    /\ calls[c].env.error.operation = "getScheduledClasses"

(***************************************************************************)
(* Properties of useScheduling (checked under SpecHook)                    *)
(***************************************************************************)
\* C14 (as claimed): the result of a bulk call whose controller had been
\* aborted when the result arrived is not applied: it does not reach
\* lastOperation, the onScheduled/onCancelled callback or the refresh.
C14_LateResultDiscarded ==
  \A a \in HookOps :
    hook.ops[a].abortedAtResult =>
      /\ a \notin Range(hook.applied)
      /\ a \notin Range(hook.callbacks)
      /\ a \notin Range(hook.refreshes)

\* a finished scheduleClasses call that validation rejected
ValidationRejected(c) ==
  /\ calls[c].op = "schedule" /\ Done(c)
  /\ Len(validateSchedulingRequest(calls[c].req, nowHour)) > 0

\* a finished scheduleClasses call (skipConflicts = false) whose conflict
\* check ran through and found conflicts
ConflictRejected(c) ==
  /\ calls[c].op = "schedule" /\ Done(c) /\ calls[c].valid
  /\ ~calls[c].req.skipConflicts /\ ~calls[c].checkFailed
  /\ Len(calls[c].conflicts) > 0

\* C20 (as claimed): the envelope of a scheduleClasses call rejected by
\* validation, and the one of a call rejected because conflicts were found,
\* is a failure of type VALIDATION_ERROR; in the conflict case it lists the
\* conflicts found.
C20_ValidationKind ==
  \A c \in Calls :
    /\ (ValidationRejected(c) \/ ConflictRejected(c))
         => /\ ~calls[c].env.success
            /\ calls[c].env.error.type = "VALIDATION_ERROR"
    /\ ConflictRejected(c)
         => /\ calls[c].env.error.context.fieldErrors = calls[c].conflicts
            /\ Len(calls[c].env.error.context.fieldErrors) > 0

\* every (date, batch) pair has at most one session with status scheduled
UniqueScheduled(docs) ==
  \A m, n \in 1..Len(docs) :
    (/\ docs[m].status = "scheduled" /\ docs[n].status = "scheduled"
     /\ docs[m].date = docs[n].date /\ docs[m].batch_name = docs[n].batch_name)
      => m = n

\* C22 (as claimed): a scheduleClasses call with skipConflicts = false or a
\* cancelClasses call, run with no other call in flight on a store in which
\* every (date, batch) pair has at most one scheduled session, leaves every
\* pair with at most one scheduled session.
C22_SerialConflictInvariant ==
  \A c \in Calls :
    (/\ calls[c].op \in {"schedule", "cancel"}
     /\ calls[c].op = "schedule" => ~calls[c].req.skipConflicts
     /\ UniqueScheduled(calls[c].store0))
      => UniqueScheduled(store)

\* the call is inside its mutation loop, a remote request of pair i pending
InLoop(k) == k.pc \in {"create", "find", "update"}

\* the place of a batch name in the batch list of a request
BatchPlace(k, name) ==
  CHOOSE n \in 1..Len(k.batches) :
    /\ BatchName(ToUpperCase(k.batches[n])) = name
    /\ \A m \in 1..(n - 1) : BatchName(ToUpperCase(k.batches[m])) # name

\* the pairs whose mutation a call has begun are 1, 2, 3, ... in this
\* order, the pair in hand being the last of them; the sessions it created
\* are in date-major, batch-minor order
ItemsInOrder(k) ==
  /\ \A n \in 1..Len(k.tried) : k.tried[n] = n
  /\ InLoop(k) => (k.i \in 1..NumItems(k) /\ Len(k.tried) \in {k.i - 1, k.i})
  /\ k.pc \in {"audit", "done"} /\ k.by # "" => Len(k.tried) = NumItems(k)
  /\ k.op = "schedule" =>
       \A n \in 1..(Len(k.added) - 1) :
         LET a == store[k.added[n]]
             b == store[k.added[n + 1]]
         IN \/ a.date < b.date
            \/ /\ a.date = b.date
               /\ BatchPlace(k, a.batch_name) <= BatchPlace(k, b.batch_name)

\* one step of a call inside its loop: the pair in hand stays or is
\* followed by the next one; a retry stays on the pair; the loop moves on
\* only with the pair settled, as scheduled / cancelled, as failed, or
\* (cancelClasses) as having nothing to cancel
LoopStep(c) ==
  LET k == calls[c]
      n == calls'[c]
  IN InLoop(k) =>
       /\ n.i \in {k.i, k.i + 1}
       /\ n.attempt > k.attempt => (n.i = k.i /\ n.pc = k.pc /\ n.attempt = k.attempt + 1)
       /\ n.i = k.i + 1 =>
            /\ n.attempt = 0
            /\ Len(n.failed) \in {Len(k.failed), Len(k.failed) + 1}
            /\ k.op = "schedule" =>
                 (Len(n.classes) + Len(n.failed) = Len(k.classes) + Len(k.failed) + 1)
       /\ Cardinality(n.remote) >= Cardinality(k.remote)

\* C24: a bulk call works on one pair at a time: the remote calls of pair
\* i, retries included, end in success or final failure before pair i + 1
\* is begun, no pair is skipped or revisited, and the pairs come in
\* date-major, batch-minor order.
C24_SequentialIteration ==
  /\ [](\A c \in Calls : ItemsInOrder(calls[c]))
  /\ [][\A c \in Calls : LoopStep(c)]_vars

\* a scheduleClasses call over two dates and two batches that retried a
\* create and has now created all four sessions
C24_Witness ==
  \E c \in Calls :
    /\ calls[c].op = "schedule" /\ Done(c)
    /\ Len(calls[c].dates) = 2 /\ Len(calls[c].batches) = 2
    /\ calls[c].tried = <<1, 2, 3, 4>>
    /\ Len(calls[c].classes) = 4
    /\ calls[c].req.skipConflicts /\ Len(auditLog) = 1
    /\ faults < MaxFaults /\ losses = MaxLosses

\* the call got as far as its mutation loop: getCurrentUser gave a user
ReachedLoop(k) == k.op \in {"schedule", "cancel"} /\ k.by # ""

\* C25: a bulk call that reached its mutation loop has, when it returns,
\* issued exactly one audit-log write, after the last pair was settled,
\* and the entry carries the final counts; a call has issued none while
\* it is in its loop, and none at all if it was rejected by validation or
\* by the conflict check.
C25_AuditSummary ==
  \A c \in Calls :
    LET k == calls[c]
    IN /\ k.nAudit <= 1
       /\ InLoop(k) => (k.nAudit = 0 /\ "audit" \notin k.remote /\ auditLog = <<>>)
       /\ (ReachedLoop(k) /\ Done(c))
            => /\ k.nAudit = 1 /\ "audit" \in k.remote
               /\ Len(k.tried) = NumItems(k)
               /\ \A n \in 1..Len(auditLog) :
                    /\ auditLog[n].action = k.op
                    /\ auditLog[n].count = Len(k.classes)
                    /\ auditLog[n].errors = Len(k.failed)
               /\ k.env.success => (/\ k.env.data.count = Len(k.classes)
                                    /\ k.env.data.errors = Len(k.failed))
       /\ (k.op \in {"schedule", "cancel"} /\ ~ReachedLoop(k))
            => (k.nAudit = 0 /\ "audit" \notin k.remote /\ auditLog = <<>>)

\* a call that scheduled some pairs and failed on others, with its entry
\* in the audit log
C25_Witness ==
  \E c \in Calls :
    /\ calls[c].op = "schedule" /\ Done(c)
    /\ Len(calls[c].classes) > 0 /\ Len(calls[c].failed) > 0
    /\ Len(auditLog) = 1
    /\ auditLog[1].count = Len(calls[c].classes)
    /\ auditLog[1].errors = Len(calls[c].failed)

\* the sessions a call (the only one of its run) has added to the store
SessionsAdded(k) == Len(store) - Len(k.store0)

\* C28 (as claimed): whatever the outcomes of its attempts, lost replies
\* included, a scheduleClasses call adds at most one session for each pair
\* it has begun, and when it returns its data the number of sessions it
\* added is data.scheduled.
C28_OneSessionPerItem ==
  \A c \in Calls :
    calls[c].op = "schedule" =>
      /\ SessionsAdded(calls[c]) <= Len(calls[c].tried)
      /\ (Done(c) /\ calls[c].env.success)
           => SessionsAdded(calls[c]) = calls[c].env.data.count

\* the (date, batch) pair of a session lies inside the request of call k
InRequest(k, doc) ==
  /\ doc.date \in k.req.startDate..k.req.endDate
  /\ \E n \in 1..Len(k.req.batches) :
       BatchName(ToUpperCase(k.req.batches[n])) = doc.batch_name

\* C29: scheduleClasses only adds sessions, with status scheduled, and
\* leaves the sessions there were as they are; cancelClasses adds and
\* removes nothing and changes nothing but the status, from scheduled to
\* cancelled, of sessions whose (date, batch) is in its request; the
\* conflict check, the listing and the statistics do not write.
C29_StatusTransitions ==
  \A c \in Calls :
    LET k == calls[c]
    IN /\ k.op = "schedule" =>
            /\ Len(store) >= Len(k.store0)
            /\ \A n \in 1..Len(k.store0) : store[n] = k.store0[n]
            /\ \A n \in (Len(k.store0) + 1)..Len(store) : store[n].status = "scheduled"
            /\ "update" \notin k.remote
       /\ k.op = "cancel" =>
            /\ Len(store) = Len(k.store0)
            /\ "create" \notin k.remote
            /\ \A n \in 1..Len(store) :
                 \/ store[n] = k.store0[n]
                 \/ /\ k.store0[n].status = "scheduled"
                    /\ store[n] = [k.store0[n] EXCEPT !.status = "cancelled"]
                    /\ InRequest(k, k.store0[n])
       /\ k.op \in {"check", "list", "stats"} =>
            /\ store = k.store0
            /\ k.remote \cap {"create", "update", "audit"} = {}
            /\ auditLog = <<>>

\* a cancelClasses call that cancelled the scheduled session of day 2 and
\* left alone the completed one of the same day, which its request covers
C29_Witness ==
  \E c \in Calls :
    /\ calls[c].op = "cancel" /\ Done(c)
    /\ Len(store) = 4
    /\ calls[c].store0[2].status = "scheduled" /\ store[2].status = "cancelled"
    /\ store[3].status = "completed" /\ InRequest(calls[c], store[3])

\* the envelope a bulk call in state k returns when nothing more happens
\* to its lists
LoopEnvelopes(k) ==
  {IF k.op = "schedule" THEN ScheduleEnvelope(k.classes, k.failed, online)
                        ELSE CancelEnvelope(k.classes, k.failed) : online \in BOOLEAN}

\* C30: the step that issues the audit write of a bulk call ends the call,
\* is its only audit write, leaves the sessions as they are, and returns
\* the envelope built from the lists the loop left, with the success
\* flag, the counts and the session lists that follow from them, whether
\* the write succeeded or failed.
C30_AuditFailureAbsorbed ==
  [][\A c \in Calls :
       calls[c].pc = "audit" /\ calls'[c] # calls[c]
         => /\ calls'[c].pc = "done"
            /\ calls[c].nAudit = 0 /\ calls'[c].nAudit = 1
            /\ store' = store
            /\ calls'[c].classes = calls[c].classes
            /\ calls'[c].failed = calls[c].failed
            /\ calls'[c].env \in LoopEnvelopes(calls[c])
            /\ Len(calls[c].classes) > 0
                 => /\ calls'[c].env.success
                    /\ calls'[c].env.data.count = Len(calls[c].classes)
                    /\ calls'[c].env.data.errors = Len(calls[c].failed)
                    /\ calls'[c].env.data.classes = calls[c].classes]_vars

\* a scheduleClasses call that created sessions, whose audit write failed
\* and left no entry, and that returned success with its sessions
C30_Witness ==
  \E c \in Calls :
    /\ calls[c].op = "schedule" /\ Done(c)
    /\ calls[c].nAudit = 1 /\ auditLog = <<>>
    /\ Len(calls[c].classes) > 0
    /\ calls[c].env.success /\ calls[c].env.data.classes = calls[c].classes
    /\ Len(store) = Len(calls[c].store0) + Len(calls[c].classes)

(***************************************************************************)
(* Properties of calls in flight together (checked under SpecRace)         *)
(***************************************************************************)
\* C23: nothing makes a scheduleClasses call wait for another one: whatever
\* the other call is doing, a call in its conflict check can query and a
\* call in its loop can create; and a call is in its loop only when no
\* pair of it had a scheduled session as it began.  So two calls for
\* overlapping ranges can both pass the check and both create (the
\* witness).
C23_RaceNotPrevented ==
  \A c \in Calls :
    /\ calls[c].pc = "conflicts" => ENABLED ConflictQuery(c, OkOutcome, TRUE)
    /\ calls[c].pc = "create" => ENABLED CreateClass(c, OkOutcome, TRUE)
    /\ calls[c].pc = "create"
         => /\ calls[c].checked /\ calls[c].conflicts = <<>>
            /\ \A i \in 1..NumItems(calls[c]) :
                 ~HasScheduled(calls[c].store0, ItemDate(calls[c], i),
                               ItemName(calls[c], i))

\* both calls passed conflict detection, no reply was lost, and one (date,
\* batch) pair has two scheduled sessions, one created by each call
C23_Witness ==
  /\ \A c \in Calls : calls[c].op = "schedule" /\ calls[c].checked
  /\ calls[1].store0 = <<>> /\ calls[2].store0 = <<>>
  /\ \E m \in Range(calls[1].classes), n \in Range(calls[2].classes) :
       /\ store[m].date = store[n].date
       /\ store[m].batch_name = store[n].batch_name
       /\ store[m].status = "scheduled" /\ store[n].status = "scheduled"

(***************************************************************************)
(* Properties of the RealtimeManager (checked under SpecRealtime)          *)
(***************************************************************************)
\* the stream handles of a collection that were opened and not torn down
OpenHandles(c) ==
  {h \in 1..Len(rm.handles) : rm.handles[h].collection = c /\ rm.handles[h].open}

\* C15 (as claimed): whatever subscribe / unsubscribe / unsubscribeAll calls
\* were made, each collection has at most one stream handle that was opened
\* and not yet torn down.
C15_OneChannelPerCollection ==
  \A c \in Collections : Cardinality(OpenHandles(c)) <= 1

\* C16 (as claimed): unsubscribe for a collection with no subscription does
\* not throw and changes nothing; after unsubscribeAll, subscriptionCount
\* and listenersCount are 0; an unsubscribeAll right after an
\* unsubscribeAll does not throw, changes nothing and invokes no teardown
\* function.
C16_IdempotentUnsubscribe ==
  /\ (rm.last.op = "unsubscribe" /\ rm.last.teardowns = 0)
       => (~rm.last.threw /\ ~rm.last.changed)
  /\ rm.last.op = "unsubscribeAll"
       => /\ ~rm.last.threw
          /\ getStatus.subscriptionCount = 0
          /\ getStatus.listenersCount = 0
  /\ (rm.last.op = "unsubscribeAll" /\ rm.prev = "unsubscribeAll")
       => (~rm.last.changed /\ rm.last.teardowns = 0)

\* the number of envelopes an event handed to the callback of handle h
TimesInvoked(h) ==
  Cardinality({n \in 1..Len(rm.last.invoked) : rm.last.invoked[n].handle = h})

\* C17: an inbound event of kind k on collection c invokes the callback of
\* every registration of c exactly once, with an envelope naming c and k,
\* when k is in the filter given at its subscribe call, and not at all
\* when it is not; this holds also for events that come after a callback
\* threw.
C17_EventDispatch ==
  rm.last.op = "event" =>
    /\ \A h \in rm.last.registered :
         TimesInvoked(h) = IF rm.last.kind \in rm.handles[h].events THEN 1 ELSE 0
    /\ \A n \in 1..Len(rm.last.invoked) :
         /\ rm.last.invoked[n].collection = rm.last.collection
         /\ rm.last.invoked[n].eventType = rm.last.kind

\* after a callback threw, an event reaches one registration and is
\* filtered out for another
C17_Witness ==
  /\ rm.last.op = "event" /\ rm.last.afterThrow
  /\ \E g, h \in rm.last.registered : TimesInvoked(g) = 1 /\ TimesInvoked(h) = 0

\* C26 (as claimed): when unsubscribeAll has returned, every stream handle
\* subscribe ever opened is torn down; and an event invokes no callback
\* whose registration unsubscribe or unsubscribeAll has removed.
C26_NoLeakedHandles ==
  /\ rm.last.op = "unsubscribeAll"
       => \A h \in 1..Len(rm.handles) : ~rm.handles[h].open
  /\ rm.last.op = "event"
       => \A n \in 1..Len(rm.last.invoked) :
            rm.last.invoked[n].handle \in rm.last.registered


(***************************************************************************)
(* Properties of the mirror of useAppwrite (checked under SpecMirror)      *)
(***************************************************************************)
MirrorIds(c) == {ap.realtimeData[c][n].id : n \in 1..Len(ap.realtimeData[c])}

\* the mirror of c holds, once each, the documents created and not deleted,
\* with their latest content
MirrorExact(c) ==
  LET items == ap.realtimeData[c]
      live == ap.created[c] \ ap.deleted[c]
  IN /\ Range(items) = {Doc(id, ap.latest[c][id]) : id \in live}
     /\ Len(items) = Cardinality(live)

\* what one event leaves alone: the mirrors of the other collections, and
\* its own when it is an update or a delete for an id the mirror lacks
MirrorStep(c) ==
  ap'.events = ap.events + 1 =>
    /\ ap'.last.collection # c => ap'.realtimeData[c] = ap.realtimeData[c]
    /\ (/\ ap'.last.collection = c
        /\ ap'.last.eventType \in {"update", "delete"}
        /\ ap'.last.id \notin MirrorIds(c))
         => ap'.realtimeData[c] = ap.realtimeData[c]

ExcludedDays(k) ==
  IF k.op = "cancel" THEN {}
  ELSE IF k.req.hasExclude THEN k.req.excludeDays ELSE {0}

\* the calendar days from the start date to the end date of a request whose
\* weekday is not excluded
ExpectedDays(k) ==
  {d \in k.req.startDate..k.req.endDate : (weekday0 + d) % 7 \notin ExcludedDays(k)}

\* C18 (as claimed): the dates a validated scheduleClasses or cancelClasses
\* call expands its range to are exactly the calendar dates from startDate
\* to endDate whose weekday is not excluded, strictly ascending, and the
\* bulk loop has |dates| x |batches| pairs.
C18_ExpansionCorrect ==
  \A c \in Calls :
    (calls[c].op \in {"schedule", "cancel"} /\ calls[c].valid) =>
      LET k == calls[c]
          dates == [n \in 1..Len(k.dates) |-> formatDateForStorage(k.dates[n])]
      IN /\ Range(dates) = ExpectedDays(k)
         /\ \A n \in 1..(Len(dates) - 1) : dates[n] < dates[n + 1]
         /\ NumItems(k) = Cardinality(ExpectedDays(k)) * Len(k.batches)

====
